---- MODULE Spec2Model ----
(***************************************************************************)
(* Resolution pipeline of the AI-in-CLI tool: the AI response parser, the  *)
(* safety validator, the response cache, the plugin manager and the tiered *)
(* command resolver, translated from the TypeScript sources.               *)
(*                                                                         *)
(* Text is carried as TLA+ strings; a character is a string of length 1.   *)
(* Confidence values are carried in hundredths (0.7 is 70), relevance      *)
(* scores in tenths, so that all arithmetic stays in the integers.         *)
(***************************************************************************)
EXTENDS Integers, Sequences, FiniteSets, TLC

VARIABLES
  \* AIService.parseAIResponse: arguments, return value, call position
  raw, wantsMultipleIn, learningModeIn, parsed, ppc,
  \* PluginManager: the plugin directory, this.plugins, this.initialized
  pluginDir, plugins, pmInitialized,
  \* SafetyValidator: this.initialized, the argument and the return value of
  \* validate, call position
  svInitialized, vcmd, vresult, vpc,
  \* CacheManager: the live cache file, the temporary file beside it, both
  \* files as they were before the last operation, and the last operation
  cacheFile, cacheTmp, cachePre, cop,
  \* CommandResolver: the request, the machine's OS, the result, the tiers
  \* consulted in order, the call's position and the initialized flag;
  \* StorageManager's initialized flag and vault file; the provider
  \* configuration
  rin, ros, rresult, rcalls, rpc, crInitialized, stInitialized, vaultFile, aiEnv,
  \* Concurrent invocations writing the cache: each writer's position, the
  \* cache object it holds in memory and where the file it has open is now
  wpc, wcache, wfd,
  \* The last call made on the PluginManager
  hcall,
  \* What the last direct call of the AI gateway met
  gnet,
  \* The command line's execution pipeline: its position, the invocations so
  \* far, the resolution, validate's answer, the commands after substitution,
  \* the step at the prompt, the prompts answered and the commands run
  xpc, xn, xresolved, xsafety, xcommands, xstep, xasked, xran,
  \* StorageManager.searchCommands: the query, the entries returned and the
  \* call's position
  squery, sfound, spc,
  \* Callers sharing one PluginManager: each caller's position, the stage of
  \* loadPlugins, and the plugins each caller's hook call went through
  ipc, iload, iseen

parseVars == <<raw, wantsMultipleIn, learningModeIn, parsed, ppc>>

pluginVars == <<pluginDir, plugins, pmInitialized>>

safetyVars == <<svInitialized, vcmd, vresult, vpc>>

cacheVars == <<cacheFile, cacheTmp, cachePre, cop>>

resolveVars ==
  <<rin, ros, rresult, rcalls, rpc, crInitialized, stInitialized, vaultFile, aiEnv>>

writerVars == <<wpc, wcache, wfd>>

hookVars == <<hcall>>

gatewayVars == <<gnet>>

cliVars == <<xpc, xn, xresolved, xsafety, xcommands, xstep, xasked, xran>>

searchVars == <<squery, sfound, spc>>

raceVars == <<ipc, iload, iseen>>

vars ==
  <<parseVars, pluginVars, safetyVars, cacheVars, resolveVars, writerVars, hookVars,
    gatewayVars, cliVars, searchVars, raceVars>>

(***************************************************************************)
(*                      JavaScript string primitives                       *)
(***************************************************************************)

\* The backtick character (U+0060).
BT == SubSeq("`'", 1, 1)

\* The markdown fence, three backticks.
FENCE == BT \o BT \o BT

Ch(s, i) == SubSeq(s, i, i)

\* The member of a one-element set: The({F(x) : x \in {e}}) is F(e) with e
\* evaluated once.
The(S) == CHOOSE v \in S : TRUE

\* Characters matched by \s and removed by String.prototype.trim.
IsWs(c) == c \in {" ", "\t", "\n", "\r", "\f"}

UPPER == "ABCDEFGHIJKLMNOPQRSTUVWXYZ"

LOWER == "abcdefghijklmnopqrstuvwxyz"

DIGITS == "0123456789"

\* String.prototype.indexOf(sub, from), 1-based; 0 when sub does not occur.
IndexOf(s, sub, from) ==
  LET cand == {i \in from..(Len(s) - Len(sub) + 1) : SubSeq(s, i, i + Len(sub) - 1) = sub}
  IN  IF cand = {} THEN 0 ELSE CHOOSE i \in cand : \A j \in cand : i <= j

Includes(s, sub) == IndexOf(s, sub, 1) # 0

StartsWith(s, pre) == Len(pre) <= Len(s) /\ SubSeq(s, 1, Len(pre)) = pre

EndsWith(s, suf) == Len(suf) <= Len(s) /\ SubSeq(s, Len(s) - Len(suf) + 1, Len(s)) = suf

Chars(s) == {Ch(s, i) : i \in 1..Len(s)}

\* Characters matched by \w.
WordChars == Chars(UPPER) \cup Chars(LOWER) \cup Chars(DIGITS) \cup {"_"}

IsWordCh(c) == c \in WordChars

LowerOf == [c \in Chars(UPPER) |-> Ch(LOWER, IndexOf(UPPER, c, 1))]

LowerCh(c) == IF c \in DOMAIN LowerOf THEN LowerOf[c] ELSE c

\* String.prototype.toLowerCase, halving the text to keep the recursion shallow.
RECURSIVE ToLowerCase(_)
ToLowerCase(s) ==
  IF \A i \in 1..Len(s) : Ch(s, i) \notin DOMAIN LowerOf THEN s
  ELSE IF Len(s) = 1 THEN LowerCh(s)
  ELSE LET h == Len(s) \div 2
       IN  ToLowerCase(SubSeq(s, 1, h)) \o ToLowerCase(SubSeq(s, h + 1, Len(s)))

\* String.prototype.trim
Trim(s) ==
  IF \A i \in 1..Len(s) : IsWs(Ch(s, i)) THEN ""
  ELSE SubSeq(s,
         CHOOSE i \in 1..Len(s) :
           ~IsWs(Ch(s, i)) /\ \A j \in 1..(i - 1) : IsWs(Ch(s, j)),
         CHOOSE i \in 1..Len(s) :
           ~IsWs(Ch(s, i)) /\ \A j \in (i + 1)..Len(s) : IsWs(Ch(s, j)))

\* s.replace(/`/g, ""), for any single character c.
RECURSIVE RemoveChar(_, _)
RemoveChar(s, c) ==
  IF Len(s) = 0 THEN ""
  ELSE IF Len(s) = 1 THEN (IF s = c THEN "" ELSE s)
  ELSE LET h == Len(s) \div 2
       IN  RemoveChar(SubSeq(s, 1, h), c) \o RemoveChar(SubSeq(s, h + 1, Len(s)), c)

\* s.split("\n")[0]
FirstLine(s) ==
  LET i == IndexOf(s, "\n", 1) IN IF i = 0 THEN s ELSE SubSeq(s, 1, i - 1)

(***************************************************************************)
(*                        Regular expression matching                      *)
(*                                                                         *)
(* A pattern is a sequence of tokens [t, v]:                               *)
(*   lit     the literal text v            alt     one of the texts in v   *)
(*   ws+     \s+                           ws*     \s*                     *)
(*   any*    .*                            end     $                       *)
(*   wsOrEnd (\s|$)                        wb      \b                      *)
(*   ws      \s                                                            *)
(***************************************************************************)
Lit(v) == [t |-> "lit", v |-> {v}]

Alt(v) == [t |-> "alt", v |-> v]

WsPlus == [t |-> "ws+", v |-> {}]

WsStar == [t |-> "ws*", v |-> {}]

AnyStar == [t |-> "any*", v |-> {}]

EndTok == [t |-> "end", v |-> {}]

WsOrEnd == [t |-> "wsOrEnd", v |-> {}]

WordB == [t |-> "wb", v |-> {}]

WsOne == [t |-> "ws", v |-> {}]

HasAt(s, j, a) == j + Len(a) - 1 <= Len(s) /\ SubSeq(s, j, j + Len(a) - 1) = a

\* The character belongs to the class: whitespace for \s, anything but a
\* line terminator for the dot.
InClass(c, dot) == IF dot THEN c \notin {"\n", "\r"} ELSE IsWs(c)

\* Positions k >= from such that every character of s[j..k-1] is in the
\* class: the run of class characters that starts at j ends before stop.
RunEnds(s, j, from, dot) ==
  LET stop == CHOOSE k \in j..(Len(s) + 1) :
                /\ k = Len(s) + 1 \/ ~InClass(Ch(s, k), dot)
                /\ \A m \in j..(k - 1) : InClass(Ch(s, m), dot)
  IN  from..stop

IsBoundary(s, j) ==
  LET before == j > 1 /\ IsWordCh(Ch(s, j - 1))
      after  == j <= Len(s) /\ IsWordCh(Ch(s, j))
  IN  before # after

\* The set of positions e such that tokens i.. of pattern p match s[j..e-1].
RECURSIVE Ends(_, _, _, _)
Ends(p, i, s, j) ==
  IF i > Len(p) THEN {j}
  ELSE LET tk == p[i] IN
    CASE tk.t \in {"lit", "alt"} ->
           UNION {IF HasAt(s, j, a) THEN Ends(p, i + 1, s, j + Len(a)) ELSE {} : a \in tk.v}
      [] tk.t = "ws+"  -> UNION {Ends(p, i + 1, s, k) : k \in RunEnds(s, j, j + 1, FALSE)}
      [] tk.t = "ws*"  -> UNION {Ends(p, i + 1, s, k) : k \in RunEnds(s, j, j, FALSE)}
      [] tk.t = "any*" -> UNION {Ends(p, i + 1, s, k) : k \in RunEnds(s, j, j, TRUE)}
      [] tk.t = "end"  -> IF j = Len(s) + 1 THEN Ends(p, i + 1, s, j) ELSE {}
      [] tk.t = "wsOrEnd" ->
           (IF j = Len(s) + 1 THEN Ends(p, i + 1, s, j) ELSE {})
           \cup (IF j <= Len(s) /\ IsWs(Ch(s, j)) THEN Ends(p, i + 1, s, j + 1) ELSE {})
      [] tk.t = "wb"   -> IF IsBoundary(s, j) THEN Ends(p, i + 1, s, j) ELSE {}
      [] tk.t = "ws"   ->
           IF j <= Len(s) /\ IsWs(Ch(s, j)) THEN Ends(p, i + 1, s, j + 1) ELSE {}

\* RegExp.prototype.test for an unanchored pattern.
RegexTest(p, s) == \E j \in 1..(Len(s) + 1) : Ends(p, 1, s, j) # {}

\* The same for a pattern carrying the i flag; literals are written lower-case.
RegexTestI(p, s) == RegexTest(p, ToLowerCase(s))

SetMax(S) == CHOOSE x \in S : \A y \in S : x >= y

\* The smallest member of a non-empty set of numbers.
SetMin(S) == CHOOSE x \in S : \A y \in S : x <= y

(***************************************************************************)
(*                     AIService.parseAIResponse                           *)
(***************************************************************************)

\* The null result of a tier, of the parser and of the cache.
NULL == [null |-> TRUE]

IsNull(r) == "null" \in DOMAIN r

\* cleaned.length > 180
MaxCleanedLength == 180

\* confidence: 0.7, in hundredths
AIConfidence == 70

SENTINEL == "_JSON_"

\* /```[\s\S]*?```/g replaced by "": each fenced block goes, content included.
RECURSIVE StripFences(_)
StripFences(s) ==
  LET i == IndexOf(s, FENCE, 1) IN
  IF i = 0 THEN s
  ELSE LET j == IndexOf(s, FENCE, i + 3) IN
       IF j = 0 THEN s
       ELSE SubSeq(s, 1, i - 1) \o StripFences(SubSeq(s, j + 3, Len(s)))

\* commandPart.replace(fences).replace(/`/g, "").split("\n")[0].trim()
Cleaned(commandPart) == Trim(FirstLine(RemoveChar(StripFences(commandPart), BT)))

\* /\s(&&|;)\s/
HasSepPattern == <<WsOne, Alt({"&&", ";"}), WsOne>>

\* /\s*(?:&&|;)\s*/
SplitPattern == <<WsStar, Alt({"&&", ";"}), WsStar>>

HasSeparators(cleaned) == RegexTest(HasSepPattern, cleaned)

\* String.prototype.split(SplitPattern): p is the start of the current piece.
\* The next separator is the leftmost position q >= p where the pattern
\* matches with an end e # p; both \s* are greedy, so the match that starts
\* at q ends at the largest end position.  The piece before it is s[p..q-1]
\* and the scan resumes at e; the text after the last match is the last piece.
RECURSIVE SplitFrom(_, _)
SplitFrom(s, p) ==
  LET starts == {q \in p..Len(s) :
                   LET es == Ends(SplitPattern, 1, s, q)
                   IN  es # {} /\ SetMax(es) # p}
  IN  IF starts = {} THEN <<SubSeq(s, p, Len(s))>>
      ELSE LET q == CHOOSE x \in starts : \A y \in starts : x <= y
               e == SetMax(Ends(SplitPattern, 1, s, q))
           IN  <<SubSeq(s, p, q - 1)>> \o SplitFrom(s, e)

SplitCommands(cleaned) == SplitFrom(cleaned, 1)

\* The names captured by /\{(\w+)\}/g in one command.
VarNamesOf(cmd) ==
  LET opens  == {i \in 1..Len(cmd) : Ch(cmd, i) = "{"}
      closes == {j \in 1..Len(cmd) : Ch(cmd, j) = "}"}
  IN  {SubSeq(cmd, ij[1] + 1, ij[2] - 1) : ij \in
         {x \in opens \X closes :
            /\ x[2] > x[1] + 1
            /\ \A m \in (x[1] + 1)..(x[2] - 1) : IsWordCh(Ch(cmd, m))}}

\* The keys of the variables mapping (every key maps to ""); the empty set
\* stands for variables: undefined.
ExtractVariables(commands) == UNION {VarNamesOf(commands[k]) : k \in 1..Len(commands)}

\* raw.split("_JSON_"): the text before the first marker and the text between
\* the first and the second marker (or the end).
SentinelParts(rawText) ==
  LET i == IndexOf(rawText, SENTINEL, 1)
      rest == SubSeq(rawText, i + Len(SENTINEL), Len(rawText))
      k == IndexOf(rest, SENTINEL, 1)
  IN  <<SubSeq(rawText, 1, i - 1), IF k = 0 THEN rest ELSE SubSeq(rest, 1, k - 1)>>

\* JSON.parse on the payload texts of the model: an object is a record, any
\* other text is a SyntaxError.  Numbers that land in confidence are in
\* hundredths.
JSONParse(text) ==
  CASE text = "{\"concepts\":[]}"     -> [ok |-> TRUE, obj |-> [concepts |-> <<>>]]
    [] text = "{\"commands\":[]}"     -> [ok |-> TRUE, obj |-> [commands |-> <<>>]]
    [] text = "{\"confidence\":7}"    -> [ok |-> TRUE, obj |-> [confidence |-> 700]]
    [] text = "{\"source\":\"vault\"}" -> [ok |-> TRUE, obj |-> [source |-> "vault"]]
    [] text = "{\"variables\":{\"x\":\"\"}}" -> [ok |-> TRUE, obj |-> [variables |-> {"x"}]]
    [] OTHER                          -> [ok |-> FALSE, obj |-> [concepts |-> <<>>]]

parseAIResponse(response, wantsMultiple, learningMode) ==
  LET rawText      == Trim(response)
      marked       == learningMode /\ Includes(rawText, SENTINEL)
      parts        == SentinelParts(rawText)
      commandPart  == IF marked THEN Trim(parts[1]) ELSE rawText
      learningPart == IF marked THEN Trim(parts[2]) ELSE ""
      json         == JSONParse(learningPart)
      base(commands) == [commands    |-> commands,
                         explanation |-> "Command suggested by AI",
                         tags        |-> <<"ai">>,
                         confidence  |-> AIConfidence,
                         source      |-> "ai",
                         variables   |-> ExtractVariables(commands)]
      built(cleaned, hasSep) ==
        The({IF learningMode /\ learningPart # "" /\ json.ok
               THEN json.obj @@ base(commands) ELSE base(commands) :
             commands \in {IF hasSep THEN SplitCommands(cleaned) ELSE <<cleaned>>}})
  IN  The({IF cleaned = "" \/ Len(cleaned) > MaxCleanedLength \/ EndsWith(cleaned, "?")
             THEN NULL
           ELSE The({IF wantsMultiple /\ ~hasSep THEN NULL ELSE built(cleaned, hasSep) :
                     hasSep \in {HasSeparators(cleaned)}}) :
           cleaned \in {Cleaned(commandPart)}})

(***************************************************************************)
(*        The parser applied to raw model text (pure function)             *)
(***************************************************************************)

\* Longest raw text generated from ParseAlphabet.
MaxRawLen == 4

ParseAlphabet == {"a", " ", ";", "&", "?", "\n"}

RECURSIVE StringsOver(_, _)
StringsOver(alphabet, n) ==
  IF n = 0 THEN {""}
  ELSE LET shorter == StringsOver(alphabet, n - 1)
       IN  shorter \cup {s \o c : s \in shorter, c \in alphabet}

RECURSIVE Rep(_, _)
Rep(c, n) ==
  IF n = 0 THEN ""
  ELSE IF n = 1 THEN c
  ELSE Rep(c, n \div 2) \o Rep(c, n - (n \div 2))

\* Raw model texts of interest: the documented scenarios, the test inputs and
\* the boundary cases of each rejection rule.
RawPool ==
  { "ls", "ls -la", "  ls  ", "ls\npwd",
    FENCE \o "bash\nls -la\n" \o FENCE,
    FENCE \o "\nls -la\n" \o FENCE \o "\npwd",
    BT \o "ls -la" \o BT,
    "ls && pwd", "ls;pwd", "ls&&pwd", "ls ; pwd", "ls ;pwd && cd x",
    "git add . && git commit -m {msg}", "mkdir {name}", "cp {src} {dst} ; ls {src}",
    "command1", "command1 && command2", "run command2 now",
    "I can help with that", "git --help", "ready", "Ready to assist",
    "what do you mean?", "",
    Rep("a", MaxCleanedLength), Rep("a", MaxCleanedLength + 1),
    "ls_JSON_{\"concepts\":[]}", "ls_JSON_{\"commands\":[]}",
    "ls_JSON_{\"confidence\":7}", "ls_JSON_{\"source\":\"vault\"}",
    "ls_JSON_{\"variables\":{\"x\":\"\"}}",
    "ls_JSON_{oops", "ls_JSON_", "ls && pwd_JSON_{\"concepts\":[]}" }

RawTexts == RawPool \cup StringsOver(ParseAlphabet, MaxRawLen)

ParseInit ==
  /\ raw \in RawTexts
  /\ wantsMultipleIn \in BOOLEAN
  /\ learningModeIn \in BOOLEAN
  /\ parsed = NULL
  /\ ppc = "called"

\* parseAIResponse(raw, wantsMultiple, learningMode) returns.
Parse ==
  /\ ppc = "called"
  /\ parsed' = parseAIResponse(raw, wantsMultipleIn, learningModeIn)
  /\ ppc' = "returned"
  /\ UNCHANGED <<raw, wantsMultipleIn, learningModeIn, pluginVars, safetyVars, cacheVars, resolveVars,
               writerVars, hookVars, gatewayVars, cliVars, searchVars, raceVars>>

ParseNext == Parse

(***************************************************************************)
(*                     Properties of the parser                            *)
(***************************************************************************)

\* The command part of the raw text and its cleaned form, as the parser
\* derives them in the current call.
CommandPartIn ==
  LET rawText == Trim(raw)
  IN  IF learningModeIn /\ Includes(rawText, SENTINEL)
        THEN Trim(SentinelParts(rawText)[1]) ELSE rawText

CleanedIn == Cleaned(CommandPartIn)

\* A raw text that is one fenced block holding the single command line cmd.
Fenced(lang, cmd) == FENCE \o lang \o "\n" \o cmd \o "\n" \o FENCE

\* C4: a command wrapped in a fenced code block is recovered: the raw text
\* "```bash\nls -la\n```" (with or without the language tag) is parsed to
\* commands ["ls -la"].
C4_FencedCommandRecovered ==
  (ppc = "returned" /\ ~wantsMultipleIn /\ raw \in {Fenced("bash", "ls -la"), Fenced("", "ls -la")})
    => (~IsNull(parsed) /\ parsed.commands = <<"ls -la">>)

\* The text split at every && and every ; with each piece trimmed and the
\* separator tokens dropped.
RECURSIVE PiecesBetweenSeparators(_)
PiecesBetweenSeparators(s) ==
  LET a == IndexOf(s, "&&", 1)
      b == IndexOf(s, ";", 1)
      i == IF a = 0 THEN b ELSE IF b = 0 THEN a ELSE IF a < b THEN a ELSE b
      w == IF i = a /\ a # 0 THEN 2 ELSE 1
  IN  IF i = 0 THEN <<Trim(s)>>
      ELSE <<Trim(SubSeq(s, 1, i - 1))>> \o PiecesBetweenSeparators(SubSeq(s, i + w, Len(s)))

SeparatorPresent(s) == Includes(s, "&&") \/ Includes(s, ";")

HardRejected(cleaned) ==
  cleaned = "" \/ Len(cleaned) > MaxCleanedLength \/ EndsWith(cleaned, "?")

WellFormedChain(s) ==
  \A k \in 1..Len(PiecesBetweenSeparators(s)) : PiecesBetweenSeparators(s)[k] # ""

\* C5: the chaining rule.  For a cleaned text that passes the hard rejections
\* and whose separators delimit non-empty commands (normal mode): without a
\* separator (&& or ;) the result is null when wantsMultiple is set and the
\* single-element list otherwise; with a separator the commands are the
\* trimmed pieces between the separators.
C5_ChainingRule ==
  (ppc = "returned" /\ ~learningModeIn /\ ~HardRejected(CleanedIn) /\ WellFormedChain(CleanedIn))
    => IF SeparatorPresent(CleanedIn)
         THEN ~IsNull(parsed) /\ parsed.commands = PiecesBetweenSeparators(CleanedIn)
         ELSE IF wantsMultipleIn THEN IsNull(parsed)
              ELSE ~IsNull(parsed) /\ parsed.commands = <<CleanedIn>>

\* C6: parse returns null whenever the cleaned text is empty, longer than 180
\* characters, contains "command1" or "command2", ends with "?", or contains
\* the conversational markers "help" or "ready".
C6_HardRejections ==
  (ppc = "returned"
     /\ (\/ HardRejected(CleanedIn)
         \/ Includes(CleanedIn, "command1")
         \/ Includes(CleanedIn, "command2")
         \/ Includes(ToLowerCase(CleanedIn), "help")
         \/ Includes(ToLowerCase(CleanedIn), "ready")))
    => IsNull(parsed)

\* The names n for which the placeholder {n} occurs in the command: n is a
\* non-empty run of word characters between the braces.
PlaceholderNames(cmd) ==
  {n \in {SubSeq(cmd, i, j) : i \in 1..Len(cmd), j \in 1..Len(cmd)} :
     /\ n # ""
     /\ \A m \in 1..Len(n) : IsWordCh(Ch(n, m))
     /\ Includes(cmd, "{" \o n \o "}")}

\* C21: the variables mapping of a parse result has as keys exactly the
\* distinct names that occur as {name} placeholders in any of its commands
\* (each mapped to the empty string), and the mapping is absent, here the
\* empty set of keys, when no placeholder occurs.
C21_VariablesArePlaceholders ==
  (ppc = "returned" /\ ~IsNull(parsed))
    => parsed.variables =
         UNION {PlaceholderNames(parsed.commands[k]) : k \in 1..Len(parsed.commands)}

\* C22: in learning mode, when the raw text contains the sentinel marker
\* and the text after it parses as JSON, the result of parsing the text
\* before the marker carries the parsed payload as its learning content;
\* when the payload does not parse, the command result is returned without
\* learning content.
C22_LearningAttached ==
  (ppc = "returned" /\ learningModeIn /\ Includes(Trim(raw), SENTINEL))
    => LET payload == JSONParse(Trim(SentinelParts(Trim(raw))[2]))
           command == parseAIResponse(CommandPartIn, wantsMultipleIn, FALSE)
       IN  IF IsNull(command) THEN IsNull(parsed)
           ELSE IF payload.ok
             THEN parsed = [learning |-> payload.obj] @@ command
             ELSE parsed = command

\* confidence of an answer to a chaining request that holds a separator:
\* 0.75, in hundredths.
BoostedConfidence == 75

\* C23: the confidence of a parse result is a fixed constant that depends
\* only on whether chaining was requested and satisfied: the base value for
\* an ordinary answer and the boosted value 0.75 for an answer to a request
\* with wantsMultiple set that contains a separator.
C23_ConfidenceConstants ==
  (ppc = "returned" /\ ~learningModeIn /\ ~IsNull(parsed))
    => parsed.confidence = IF wantsMultipleIn /\ HasSeparators(CleanedIn)
                             THEN BoostedConfidence ELSE AIConfidence

(***************************************************************************)
(*                            PluginManager                                *)
(*                                                                         *)
(* A file of the plugin directory is [file, loads, plugin]: loads is FALSE *)
(* when require() throws.  A candidate plugin is [name, nameIsString,      *)
(* versionIsString, rules, safety, observer]; a hook is [kind, value] with *)
(* kind "none" when the plugin does not implement it, "throw" when it      *)
(* raises and "returns" when it returns value (NULL or a result record).   *)
(***************************************************************************)

\* plugin && typeof plugin.name === "string" && typeof plugin.version === "string"
validatePlugin(plugin) == plugin.nameIsString /\ plugin.versionIsString

\* A loading loop that registers a candidate whatever names are registered.
RECURSIVE LoadAllFrom(_, _, _)
LoadAllFrom(files, k, registered) ==
  IF k > Len(files) THEN registered
  ELSE LET f == files[k] IN
       IF ~EndsWith(f.file, ".js") \/ ~f.loads \/ ~validatePlugin(f.plugin)
         THEN LoadAllFrom(files, k + 1, registered)
       ELSE LoadAllFrom(files, k + 1, Append(registered, f.plugin))

\* The for-loop of loadPlugins over pluginFiles[k..], registered holding
\* this.plugins so far.
RECURSIVE LoadFrom(_, _, _)
LoadFrom(files, k, registered) ==
  IF k > Len(files) THEN registered
  ELSE LET f == files[k] IN
       IF ~EndsWith(f.file, ".js") THEN LoadFrom(files, k + 1, registered)
       ELSE IF ~f.loads THEN LoadFrom(files, k + 1, registered)
       ELSE IF ~validatePlugin(f.plugin) THEN LoadFrom(files, k + 1, registered)
       ELSE IF \E i \in 1..Len(registered) : registered[i].name = f.plugin.name
              THEN LoadFrom(files, k + 1, registered)
       ELSE LoadFrom(files, k + 1, Append(registered, f.plugin))

\* PluginManager.loadPlugins: the directory is created when missing; a
\* failing readdir is caught and leaves the list as it is.
loadPlugins(dir, registered) ==
  IF ~dir.exists THEN registered
  ELSE IF ~dir.readable THEN registered
  ELSE LoadFrom(dir.files, 1, registered)

\* A hook loop that goes on to the remaining plugins after a result.
RECURSIVE HookRunAll(_, _, _, _)
HookRunAll(list, hook, k, invoked) ==
  IF k > Len(list) THEN [result |-> NULL, invoked |-> invoked]
  ELSE LET h == list[k][hook] IN
       IF h.kind = "none" THEN HookRunAll(list, hook, k + 1, invoked)
       ELSE IF h.kind = "throw" \/ IsNull(h.value)
         THEN HookRunAll(list, hook, k + 1, Append(invoked, list[k].name))
       ELSE [result  |-> h.value,
             invoked |-> HookRunAll(list, hook, k + 1, Append(invoked, list[k].name)).invoked]

\* The hook loops of getRules and getSafetyChecks over this.plugins[k..]:
\* [result, invoked], invoked listing the plugins whose hook was called.  The
\* first truthy return value wins, a throwing hook is caught and skipped.
RECURSIVE HookRun(_, _, _, _)
HookRun(list, hook, k, invoked) ==
  IF k > Len(list) THEN [result |-> NULL, invoked |-> invoked]
  ELSE LET h == list[k][hook] IN
       IF h.kind = "none" THEN HookRun(list, hook, k + 1, invoked)
       ELSE IF h.kind = "throw" THEN HookRun(list, hook, k + 1, Append(invoked, list[k].name))
       ELSE IF IsNull(h.value) THEN HookRun(list, hook, k + 1, Append(invoked, list[k].name))
       ELSE [result |-> h.value, invoked |-> Append(invoked, list[k].name)]

\* The value the hook loop returns.
HookFrom(list, hook, k) == HookRun(list, hook, k, <<>>).result

\* The loop of onCommandExecuted over this.plugins[k..]: every plugin that
\* implements the hook is called, a throwing one is caught and skipped.
RECURSIVE NotifyFrom(_, _, _)
NotifyFrom(list, k, invoked) ==
  IF k > Len(list) THEN invoked
  ELSE IF list[k].observer.kind = "none" THEN NotifyFrom(list, k + 1, invoked)
  ELSE NotifyFrom(list, k + 1, Append(invoked, list[k].name))

onCommandExecuted(list) == NotifyFrom(list, 1, <<>>)

getRules(list) == HookFrom(list, "rules", 1)

getSafetyChecks(list) == HookFrom(list, "safety", 1)

\* PluginManager.init on the state [dir, plugins, initialized]: the first call
\* sets the flag and loads the directory (creating it when missing); later
\* calls return at once.
pmInit(pm) ==
  IF pm.initialized THEN pm
  ELSE [dir         |-> IF pm.dir.exists THEN pm.dir
                        ELSE [exists |-> TRUE, readable |-> TRUE, files |-> <<>>],
        plugins     |-> loadPlugins(pm.dir, pm.plugins),
        initialized |-> TRUE]

Hook(kind, value) == [kind |-> kind, value |-> value]

NoHook == Hook("none", NULL)

Throws == Hook("throw", NULL)

Returns(value) == Hook("returns", value)

Candidate(name, rules, safety, observer) ==
  [name |-> name, nameIsString |-> TRUE, versionIsString |-> TRUE,
   rules |-> rules, safety |-> safety, observer |-> observer]

PluginFile(file, plugin) == [file |-> file, loads |-> TRUE, plugin |-> plugin]

Directory(files) == [exists |-> TRUE, readable |-> TRUE, files |-> files]

MissingDirectory == [exists |-> FALSE, readable |-> TRUE, files |-> <<>>]

\* Return values of plugin hooks used in the model.
PluginAllows == [blocked |-> FALSE, riskLevel |-> "low"]

PluginBlocks == [blocked |-> TRUE, reason |-> "blocked by plugin", riskLevel |-> "high"]

PluginRule ==
  [commands |-> <<"echo plugin">>, explanation |-> "plugin rule", tags |-> <<>>, confidence |-> 90]

\* A malformed rule result: no command and a confidence above 1.
PluginBadRule ==
  [commands |-> <<>>, explanation |-> "malformed", tags |-> <<>>, confidence |-> 150]

PQuiet == Candidate("quiet", Returns(NULL), Returns(NULL), Returns(NULL))

PFaulty == Candidate("faulty", Throws, Throws, Throws)

PAllow == Candidate("allow", NoHook, Returns(PluginAllows), NoHook)

PBlock == Candidate("block", NoHook, Returns(PluginBlocks), NoHook)

PRule == Candidate("rule", Returns(PluginRule), NoHook, Returns(NULL))

PBadRule == Candidate("badrule", Returns(PluginBadRule), NoHook, NoHook)

(***************************************************************************)
(*                           SafetyValidator                               *)
(***************************************************************************)

\* private readonly dangerousPatterns, in array order (all carry the i flag).
dangerousPatterns ==
  << <<Lit("rm"), WsPlus, Lit("-rf"), WsPlus, Lit("/"), WsOrEnd>>,
     <<Lit("rmdir"), WsStar, Lit("/s"), WsStar, Lit("/q"), WsPlus, Lit("c:\\\\")>>,
     <<Lit("format"), WsPlus, Lit("c:")>>,
     <<Lit("mkfs.")>>,
     <<Lit("dd"), WsPlus, Lit("if="), AnyStar, Lit("of=/dev/sd")>>,
     <<Lit("kill"), WsPlus, Lit("-9"), WsPlus, Lit("1"), WsOrEnd>>,
     <<Lit("killall"), WsPlus, Lit("-9")>>,
     <<Lit("taskkill"), WsStar, Lit("/f")>>,
     <<Lit("docker"), WsPlus, Lit("system"), WsPlus, Lit("prune"), WsPlus, Lit("-af")>>,
     <<Lit("docker"), WsPlus, Lit("rm"), WsPlus, Lit("-vf")>>,
     <<Lit("docker"), WsPlus, Lit("rmi"), WsPlus, Lit("-f")>>,
     <<Lit("iptables"), WsPlus, Lit("-f")>>,
     <<Lit("ip"), WsPlus, Lit("link"), WsPlus, Lit("set"), AnyStar, Lit("down")>>,
     <<Lit("netsh"), AnyStar, Lit("reset")>>,
     <<Lit("userdel"), WsPlus, Lit("-r")>>,
     <<Lit("deluser"), AnyStar, Lit("--remove-home")>>,
     <<Lit(">"), WsStar, Lit("/etc/passwd")>>,
     <<Lit(">"), WsStar, Lit("/etc/shadow")>>,
     <<Lit(">"), WsStar, Lit("/etc/sudoers")>>,
     <<Lit("update-grub")>>,
     <<Lit("grub-install")>>,
     <<Lit("bootsect")>> >>

\* private readonly warningPatterns, in array order (all carry the i flag).
warningPatterns ==
  << <<Lit("rm"), WsPlus, Lit("-rf")>>,
     <<Lit("rmdir"), WsStar, Lit("/s")>>,
     <<Lit("del"), AnyStar, Lit("/s")>>,
     <<Lit("fdisk")>>,
     <<Lit("diskpart")>>,
     <<Lit("kill"), WsPlus, Lit("-9")>>,
     <<Lit("taskkill")>>,
     <<Lit("docker"), WsPlus, Alt({"rm", "rmi", "system"})>>,
     <<Lit("iptables")>>,
     <<Lit("netsh")>>,
     <<Lit("chmod"), WsPlus, Lit("-r")>> >>

MatchesAny(patterns, cmd) == \E i \in 1..Len(patterns) : RegexTestI(patterns[i], cmd)

getBlockReason(cmd) ==
  IF RegexTestI(<<Lit("rm"), WsPlus, Lit("-rf"), WsPlus, Lit("/"), WsOrEnd>>, cmd)
    THEN "Attempting to delete the root directory."
  ELSE IF RegexTestI(<<Lit("format"), WsPlus, Lit("c:")>>, cmd)
    THEN "Formatting the system drive will destroy all data."
  ELSE IF RegexTestI(<<Lit("kill"), WsPlus, Lit("-9"), WsPlus, Lit("1")>>, cmd)
    THEN "Killing PID 1 will destabilize the system."
  ELSE IF RegexTestI(<<Lit("docker"), WsPlus, Lit("system"), WsPlus, Lit("prune"), WsPlus, Lit("-af")>>, cmd)
    THEN "Docker prune with -af removes all containers and images."
  ELSE "Command contains dangerous operations."

getWarningReason(cmd) ==
  IF RegexTestI(<<Lit("rm"), WsPlus, Lit("-rf")>>, cmd)
    THEN "Recursive deletion can remove large amounts of data."
  ELSE IF RegexTestI(<<Lit("kill"), WsPlus, Lit("-9")>>, cmd)
    THEN "Force killing processes can cause instability."
  ELSE IF RegexTestI(<<Lit("chmod"), WsPlus, Lit("-r")>>, cmd)
    THEN "Recursive permission changes affect many files."
  ELSE IF RegexTestI(<<Lit("docker")>>, cmd)
    THEN "Docker operations may remove containers or images."
  ELSE "This command may have destructive side effects."

\* The loop of checkContextualDangers over commands[k..].
RECURSIVE ContextualFrom(_, _)
ContextualFrom(commands, k) ==
  IF k > Len(commands) THEN NULL
  ELSE LET cmd == Trim(ToLowerCase(commands[k])) IN
       IF Includes(cmd, "sudo") \/ Includes(cmd, "runas")
         THEN [blocked |-> FALSE,
               warning |-> "This command requires elevated privileges.",
               riskLevel |-> "medium"]
       ELSE IF /\ (Includes(cmd, "curl") \/ Includes(cmd, "wget"))
               /\ Includes(cmd, "|")
               /\ (Includes(cmd, "sh") \/ Includes(cmd, "bash") \/ Includes(cmd, "powershell"))
         THEN [blocked |-> FALSE,
               warning |-> "Piping remote scripts directly into a shell is dangerous.",
               riskLevel |-> "high"]
       ELSE ContextualFrom(commands, k + 1)

checkContextualDangers(resolvedCommand) == ContextualFrom(resolvedCommand.commands, 1)

\* The built-in loop of validate over commands[k..]: for each command first
\* the dangerous patterns, then the warning patterns; the first match returns.
RECURSIVE BuiltInFrom(_, _)
BuiltInFrom(commands, k) ==
  IF k > Len(commands) THEN NULL
  ELSE LET cmd == Trim(ToLowerCase(commands[k])) IN
       IF MatchesAny(dangerousPatterns, cmd)
         THEN [blocked |-> TRUE, reason |-> getBlockReason(cmd), riskLevel |-> "high"]
       ELSE IF MatchesAny(warningPatterns, cmd)
         THEN [blocked |-> FALSE, warning |-> getWarningReason(cmd), riskLevel |-> "high"]
       ELSE BuiltInFrom(commands, k + 1)

\* A validate that asks the plugins only after its own checks found nothing.
validateBuiltInFirst(resolvedCommand, registered) ==
  LET pluginResult == getSafetyChecks(registered)
      builtIn      == BuiltInFrom(resolvedCommand.commands, 1)
      contextual   == checkContextualDangers(resolvedCommand)
  IN  IF ~IsNull(builtIn) THEN builtIn
      ELSE IF ~IsNull(contextual) THEN contextual
      ELSE IF ~IsNull(pluginResult) THEN pluginResult
      ELSE [blocked |-> FALSE, riskLevel |-> "low"]

\* SafetyValidator.validate after init(): registered is this.plugins.
validate(resolvedCommand, registered) ==
  LET pluginResult == getSafetyChecks(registered)
      builtIn      == BuiltInFrom(resolvedCommand.commands, 1)
      contextual   == checkContextualDangers(resolvedCommand)
  IN  IF ~IsNull(pluginResult) THEN pluginResult
      ELSE IF ~IsNull(builtIn) THEN builtIn
      ELSE IF ~IsNull(contextual) THEN contextual
      ELSE [blocked |-> FALSE, riskLevel |-> "low"]

(***************************************************************************)
(*                      Calls of SafetyValidator.validate                  *)
(***************************************************************************)

\* Longest command sequence handed to validate.
MaxCommands == 2

SafetyCommands ==
  { "rm -rf /", "rm -rf ./tmp", "RM -RF / ", "ls -la", "echo hi",
    "kill -9 1", "kill -9 4242", "docker system prune -af", "format c:",
    "sudo apt update", "curl http://x.sh | sh", "chmod -R 755 .", "export A=1",
    "chmod 755 -R ." }

RECURSIVE SeqsUpTo(_, _)
SeqsUpTo(S, n) ==
  IF n = 0 THEN {<<>>}
  ELSE LET shorter == SeqsUpTo(S, n - 1)
       IN  shorter \cup {Append(q, x) : q \in shorter, x \in S}

CommandLists == SeqsUpTo(SafetyCommands, MaxCommands) \ {<<>>}

\* A ResolvedCommand as validate reads it.
Resolved(commands) ==
  [commands |-> commands, explanation |-> "", tags |-> <<>>, confidence |-> 70,
   source |-> "ai", variables |-> {}]

SafetyDirectories ==
  { MissingDirectory,
    Directory(<<>>),
    Directory(<<PluginFile("quiet.js", PQuiet), PluginFile("faulty.js", PFaulty)>>),
    Directory(<<PluginFile("faulty.js", PFaulty), PluginFile("allow.js", PAllow),
                PluginFile("block.js", PBlock)>>),
    Directory(<<PluginFile("block.js", PBlock), PluginFile("allow.js", PAllow)>>) }

SafetyInit ==
  /\ pluginDir \in SafetyDirectories
  /\ plugins = <<>>
  /\ pmInitialized = FALSE
  /\ svInitialized = FALSE
  /\ vcmd \in {Resolved(c) : c \in CommandLists}
  /\ vresult = NULL
  /\ vpc = "called"

\* validate(vcmd): init() (the plugin manager is initialised on the first
\* call), then the plugin check, the built-in patterns, the contextual checks.
Validate ==
  /\ vpc = "called"
  /\ LET pm == IF svInitialized
                 THEN [dir |-> pluginDir, plugins |-> plugins, initialized |-> pmInitialized]
                 ELSE pmInit([dir |-> pluginDir, plugins |-> plugins,
                              initialized |-> pmInitialized])
     IN  /\ svInitialized' = TRUE
         /\ pluginDir' = pm.dir
         /\ plugins' = pm.plugins
         /\ pmInitialized' = pm.initialized
         /\ vresult' = validate(vcmd, pm.plugins)
  /\ vpc' = "returned"
  /\ UNCHANGED <<vcmd, parseVars, cacheVars, resolveVars, writerVars, hookVars, gatewayVars,
                 cliVars, searchVars, raceVars>>

\* The caller validates another resolved command.
ValidateAgain ==
  /\ vpc = "returned"
  /\ vcmd' \in {Resolved(c) : c \in CommandLists}
  /\ vresult' = NULL
  /\ vpc' = "called"
  /\ UNCHANGED <<svInitialized, pluginVars, parseVars, cacheVars, resolveVars, writerVars,
               hookVars, gatewayVars, cliVars, searchVars, raceVars>>

SafetyNext == Validate \/ ValidateAgain

(***************************************************************************)
(*                     Properties of the validator                         *)
(***************************************************************************)

IsDangerous(command) == MatchesAny(dangerousPatterns, Trim(ToLowerCase(command)))

IsWarning(command) == MatchesAny(warningPatterns, Trim(ToLowerCase(command)))

\* C1: when no plugin classifies the command, every sequence in which some
\* command, at any position, matches a dangerous pattern is blocked with
\* riskLevel high, also when an earlier command matches only a warning pattern.
C1_DangerousAnywhereBlocks ==
  (/\ vpc = "returned"
   /\ IsNull(getSafetyChecks(plugins))
   /\ \E k \in 1..Len(vcmd.commands) : IsDangerous(vcmd.commands[k]))
    => (vresult.blocked /\ vresult.riskLevel = "high")

\* The contextual heuristics in their stated order, for one lower-cased,
\* trimmed command: the risk level of the first that applies, "none" when
\* none does.
HeuristicOf(cmd) ==
  IF Includes(cmd, "sudo") \/ Includes(cmd, "runas") THEN "medium"
  ELSE IF /\ (Includes(cmd, "curl") \/ Includes(cmd, "wget"))
          /\ Includes(cmd, "|")
          /\ (Includes(cmd, "sh") \/ Includes(cmd, "bash") \/ Includes(cmd, "powershell"))
    THEN "high"
  ELSE IF Includes(cmd, "chmod") /\ Includes(cmd, "-r") THEN "medium"
  ELSE IF StartsWith(cmd, "export ") \/ StartsWith(cmd, "setenv ") \/ StartsWith(cmd, "set ")
    THEN "low"
  ELSE "none"

\* The risk level the heuristics give a sequence: that of its first command
\* to which a heuristic applies.
RECURSIVE HeuristicFrom(_, _)
HeuristicFrom(commands, k) ==
  IF k > Len(commands) THEN "none"
  ELSE IF HeuristicOf(Trim(ToLowerCase(commands[k]))) # "none"
    THEN HeuristicOf(Trim(ToLowerCase(commands[k])))
  ELSE HeuristicFrom(commands, k + 1)

\* C24: for a command sequence that matches no dangerous and no warning
\* pattern and that no plugin classifies, validate answers with the first
\* contextual heuristic that applies, in the order sudo/runas (medium
\* warning), download piped into a shell (high warning), recursive
\* permission change (medium warning), environment-variable mutation (low
\* warning), and with blocked = false, riskLevel = low and no warning when
\* none applies.
C24_ContextualHeuristics ==
  (/\ vpc = "returned"
   /\ IsNull(getSafetyChecks(plugins))
   /\ \A k \in 1..Len(vcmd.commands) :
        ~IsDangerous(vcmd.commands[k]) /\ ~IsWarning(vcmd.commands[k]))
    => LET level == HeuristicFrom(vcmd.commands, 1)
       IN  /\ ~vresult.blocked
           /\ vresult.riskLevel = IF level = "none" THEN "low" ELSE level
           /\ ("warning" \in DOMAIN vresult) <=> (level # "none")

\* The places, in load order, of the plugins whose hook returns a result.
Answering(list, hook) ==
  {i \in 1..Len(list) : list[i][hook].kind = "returns" /\ ~IsNull(list[i][hook].value)}

\* C12: when some plugin's getSafetyChecks returns a result for the command,
\* validate returns exactly the result of the first such plugin in load
\* order, whatever the built-in dangerous, warning and contextual checks
\* would say.
C12_PluginResultWins ==
  (vpc = "returned" /\ Answering(plugins, "safety") # {}) =>
    vresult = plugins[SetMin(Answering(plugins, "safety"))].safety.value

\* A command that the dangerous patterns match was allowed by the first
\* answering plugin, with a blocking plugin loaded after it.
C12_Witness ==
  /\ vpc = "returned"
  /\ \E k \in 1..Len(vcmd.commands) : IsDangerous(vcmd.commands[k])
  /\ Cardinality(Answering(plugins, "safety")) = 2
  /\ vresult = PluginAllows

(***************************************************************************)
(*                             CacheManager                                *)
(*                                                                         *)
(* A file is [exists, complete, entries]: entries is the JSON object as    *)
(* the sequence of its members in key order (insertion order, which        *)
(* writeJson and readJson preserve), each [key, response, timestamp,       *)
(* expiresAt]; complete is FALSE for a file a failed write left torn.      *)
(* Times are milliseconds.                                                 *)
(***************************************************************************)

\* private readonly maxEntries = 500
maxEntries == 500

\* cacheDurationMs: number = 60 * 60 * 1000
cacheDuration == 3600000

NoFile == [exists |-> FALSE, complete |-> TRUE, entries |-> <<>>]

FileOf(entries) == [exists |-> TRUE, complete |-> TRUE, entries |-> entries]

TornFile == [exists |-> TRUE, complete |-> FALSE, entries |-> <<>>]

RECURSIVE JoinFrom(_, _, _)
JoinFrom(fields, sep, k) ==
  IF k > Len(fields) THEN ""
  ELSE IF k = Len(fields) THEN fields[k]
  ELSE fields[k] \o sep \o JoinFrom(fields, sep, k + 1)

\* Array.prototype.join
Join(fields, sep) == JoinFrom(fields, sep, 1)

\* crypto.createHash("sha256").update(data).digest("hex"): the digest is
\* taken to be collision free, so it is carried as the hashed text itself.
Sha256Hex(data) == "sha256:" \o data

\* CacheManager.getCacheKey with the default model and promptVersion; an
\* absent shell is the empty text.
getCacheKey(input, os, learningMode) ==
  Sha256Hex(Join(<<input, os.platform, os.arch, os.shell,
                   IF learningMode THEN "learning" ELSE "normal",
                   "gemini-2.5-flash", "v1">>, "|"))

\* The position of key in the object, 0 when it has no such member.
KeyIndex(entries, key) ==
  LET hit == {i \in 1..Len(entries) : entries[i].key = key}
  IN  IF hit = {} THEN 0 ELSE CHOOSE i \in hit : TRUE

\* A deletion that takes the first member instead of the named one.
DeleteHead(entries, key) ==
  IF KeyIndex(entries, key) = 0 THEN entries ELSE Tail(entries)

\* delete cache[key]
DeleteKey(entries, key) ==
  LET i == KeyIndex(entries, key)
  IN  IF i = 0 THEN entries
      ELSE SubSeq(entries, 1, i - 1) \o SubSeq(entries, i + 1, Len(entries))

\* cache[key] = entry: an existing member keeps its place, a new one is last.
PutKey(entries, entry) ==
  LET i == KeyIndex(entries, entry.key)
  IN  IF i = 0 THEN Append(entries, entry)
      ELSE [entries EXCEPT ![i] = entry]

\* An eviction order that ignores the timestamps: first in key order.
FirstIndex(entries) == 1

\* The first member, in key order, among those with the smallest timestamp:
\* the head of the stable sort by timestamp.
OldestIndex(entries) ==
  LET least == SetMin({entries[i].timestamp : i \in 1..Len(entries)})
  IN  SetMin({i \in 1..Len(entries) : entries[i].timestamp = least})

\* The first n members of the stable sort by timestamp are deleted.
RECURSIVE DropOldest(_, _)
DropOldest(entries, n) ==
  IF n <= 0 THEN entries
  ELSE LET i == OldestIndex(entries)
       IN  DropOldest(SubSeq(entries, 1, i - 1) \o SubSeq(entries, i + 1, Len(entries)), n - 1)

\* CacheManager.evictOldEntries
evictOldEntries(entries) ==
  IF Len(entries) <= maxEntries THEN entries
  ELSE DropOldest(entries, Len(entries) - maxEntries)

\* CacheManager.writeCache when the step named by fault fails: writeJson to
\* the temporary file, then move over the live file.  A failed writeJson may
\* leave a torn temporary file; a failed move leaves the complete one.
writeCache(file, tmp, entries, fault) ==
  IF fault = "writeJson" THEN [file |-> file, tmp |-> TornFile, thrown |-> TRUE]
  ELSE IF fault = "move" THEN [file |-> file, tmp |-> FileOf(entries), thrown |-> TRUE]
  ELSE [file |-> FileOf(entries), tmp |-> NoFile, thrown |-> FALSE]

\* readJson fails on an I/O error and on content that is not JSON.
ReadFails(file, fault) == fault = "readJson" \/ ~file.complete

\* A get that treats an entry as expired already at its expiry time.
getBodyEager(file, tmp, key, now, fault) ==
  LET i == KeyIndex(file.entries, key)
  IN  IF fault = "pathExists" \/ (file.exists /\ ReadFails(file, fault))
        THEN [file |-> file, tmp |-> tmp, ret |-> NULL, thrown |-> TRUE]
      ELSE IF ~file.exists \/ i = 0 \/ now >= file.entries[i].expiresAt
        THEN [file |-> file, tmp |-> tmp, ret |-> NULL, thrown |-> FALSE]
      ELSE [file |-> file, tmp |-> tmp,
            ret |-> [value |-> file.entries[i].response], thrown |-> FALSE]

\* The try block of CacheManager.get: [file, tmp, ret, thrown]; ret is NULL
\* or [value |-> response].
getBody(file, tmp, key, now, fault) ==
  LET done(r) == [file |-> file, tmp |-> tmp, ret |-> r, thrown |-> FALSE]
      throw   == [file |-> file, tmp |-> tmp, ret |-> NULL, thrown |-> TRUE]
      i       == KeyIndex(file.entries, key)
  IN  IF fault = "pathExists" THEN throw
      ELSE IF ~file.exists THEN done(NULL)
      ELSE IF ReadFails(file, fault) THEN throw
      ELSE IF i = 0 THEN done(NULL)
      ELSE IF now > file.entries[i].expiresAt
        THEN LET w == writeCache(file, tmp, DeleteKey(file.entries, key), fault)
             IN  [file |-> w.file, tmp |-> w.tmp, ret |-> NULL, thrown |-> w.thrown]
      ELSE done([value |-> file.entries[i].response])

\* A get that finds nothing, whatever the store holds.
cacheGetMiss(file, tmp, key, now, fault) ==
  [file |-> file, tmp |-> tmp, ret |-> NULL, faulted |-> FALSE, raised |-> FALSE]

\* A get without its catch clause: a failure reaches the caller.
cacheGetUncaught(file, tmp, key, now, fault) ==
  LET b == getBody(file, tmp, key, now, fault)
  IN  [file |-> b.file, tmp |-> b.tmp, ret |-> b.ret,
       faulted |-> b.thrown, raised |-> b.thrown]

\* CacheManager.get: catch { return null }.
cacheGet(file, tmp, key, now, fault) ==
  LET b == getBody(file, tmp, key, now, fault)
  IN  [file |-> b.file, tmp |-> b.tmp,
       ret |-> IF b.thrown THEN NULL ELSE b.ret,
       faulted |-> b.thrown, raised |-> FALSE]

\* The try block of CacheManager.set: [file, tmp, thrown].
setBody(file, tmp, key, now, response, fault) ==
  LET throw == [file |-> file, tmp |-> tmp, thrown |-> TRUE]
      entry == [key |-> key, response |-> response, timestamp |-> now,
                expiresAt |-> now + cacheDuration]
      old   == IF file.exists THEN file.entries ELSE <<>>
  IN  IF fault \in {"ensureDir", "pathExists"} THEN throw
      ELSE IF file.exists /\ ReadFails(file, fault) THEN throw
      ELSE writeCache(file, tmp, evictOldEntries(PutKey(old, entry)), fault)

\* CacheManager.set: catch { }.
cacheSet(file, tmp, key, now, response, fault) ==
  LET b == setBody(file, tmp, key, now, response, fault)
  IN  [file |-> b.file, tmp |-> b.tmp, faulted |-> b.thrown, raised |-> FALSE]

\* The try block of CacheManager.clear: [file, tmp, thrown].
clearBody(file, tmp, fault) ==
  IF fault = "pathExists" THEN [file |-> file, tmp |-> tmp, thrown |-> TRUE]
  ELSE IF ~file.exists THEN [file |-> file, tmp |-> tmp, thrown |-> FALSE]
  ELSE IF fault = "remove" THEN [file |-> file, tmp |-> tmp, thrown |-> TRUE]
  ELSE [file |-> NoFile, tmp |-> tmp, thrown |-> FALSE]

\* CacheManager.clear: catch { }.
cacheClear(file, tmp, fault) ==
  LET b == clearBody(file, tmp, fault)
  IN  [file |-> b.file, tmp |-> b.tmp, faulted |-> b.thrown, raised |-> FALSE]

(***************************************************************************)
(* Calls of the cache.  Each call reads the wall clock once; the clock is  *)
(* not monotone across invocations of the tool.  fault names the file      *)
(* system step that fails if the call reaches it.                          *)
(***************************************************************************)

MaxCacheOps == 2

Linux == [platform |-> "linux", arch |-> "x64", shell |-> "bash"]

\* A machine whose arch and shell texts hold the platform name and the
\* separator character.
OddMachine == [platform |-> "linux", arch |-> "linux", shell |-> "x64|bash"]

CacheTuples ==
  { [input |-> "list files", os |-> Linux, learningMode |-> FALSE],
    [input |-> "list files", os |-> Linux, learningMode |-> TRUE],
    [input |-> "ls|linux", os |-> Linux, learningMode |-> FALSE],
    [input |-> "ls", os |-> OddMachine, learningMode |-> FALSE] }

CacheResponses == {"ls -la", "dir"}

T0 == 1000

CacheTimes == {T0, T0 + 1, T0 + 1 + cacheDuration}

\* The step that fails in a call, if the call reaches it.
GetFaults == {"none", "pathExists", "readJson", "writeJson"}

SetFaults == {"none", "ensureDir", "readJson", "move"}

ClearFaults == {"none", "remove"}

KeyOf(t) == getCacheKey(t.input, t.os, t.learningMode)

\* An entry written earlier for another input, at T0 + 1, T0 + 2 or T0 + 3;
\* the oldest of them is not the first in key order.
Filler(i) ==
  [key |-> getCacheKey("q" \o ToString(i), Linux, FALSE), response |-> "r",
   timestamp |-> T0 + 1 + ((i + 1) % 3),
   expiresAt |-> T0 + 1 + ((i + 1) % 3) + cacheDuration]

Fillers(n) == [i \in 1..n |-> Filler(i)]

CacheStores == {NoFile, FileOf(Fillers(maxEntries - 1)), FileOf(Fillers(maxEntries))}

\* The arguments recorded for an operation that takes no key tuple.
NoArgs == [input |-> "", os |-> Linux, learningMode |-> FALSE]

NoOp == [op |-> "none", args |-> NoArgs, key |-> "", now |-> 0, fault |-> "none",
         ret |-> NULL, faulted |-> FALSE, raised |-> FALSE, n |-> 0]

CacheInit ==
  /\ cacheFile \in CacheStores
  /\ cacheTmp = NoFile
  /\ cachePre = [file |-> cacheFile, tmp |-> cacheTmp]
  /\ cop = NoOp

OtherThanCache ==
  <<parseVars, pluginVars, safetyVars, resolveVars, writerVars, hookVars, gatewayVars,
    cliVars, searchVars, raceVars>>

Get ==
  /\ cop.n < MaxCacheOps
  /\ \E t \in CacheTuples, now \in CacheTimes,
        fault \in GetFaults :
       \E r \in {cacheGet(cacheFile, cacheTmp, KeyOf(t), now, fault)} :
           /\ cacheFile' = r.file
           /\ cacheTmp' = r.tmp
           /\ cachePre' = [file |-> cacheFile, tmp |-> cacheTmp]
           /\ cop' = [op |-> "get", args |-> t, key |-> KeyOf(t), now |-> now, fault |-> fault,
                      ret |-> r.ret, faulted |-> r.faulted, raised |-> r.raised,
                      n |-> cop.n + 1]
  /\ UNCHANGED OtherThanCache

Set ==
  /\ cop.n < MaxCacheOps
  /\ \E t \in CacheTuples, now \in CacheTimes, v \in CacheResponses,
        fault \in SetFaults :
       \E r \in {cacheSet(cacheFile, cacheTmp, KeyOf(t), now, v, fault)} :
           /\ cacheFile' = r.file
           /\ cacheTmp' = r.tmp
           /\ cachePre' = [file |-> cacheFile, tmp |-> cacheTmp]
           /\ cop' = [op |-> "set", args |-> t, key |-> KeyOf(t), now |-> now, fault |-> fault,
                      ret |-> [value |-> v], faulted |-> r.faulted, raised |-> r.raised,
                      n |-> cop.n + 1]
  /\ UNCHANGED OtherThanCache

Clear ==
  /\ cop.n < MaxCacheOps
  /\ \E fault \in ClearFaults :
       \E r \in {cacheClear(cacheFile, cacheTmp, fault)} :
           /\ cacheFile' = r.file
           /\ cacheTmp' = r.tmp
           /\ cachePre' = [file |-> cacheFile, tmp |-> cacheTmp]
           /\ cop' = [op |-> "clear", args |-> NoArgs, key |-> "", now |-> 0, fault |-> fault,
                      ret |-> NULL, faulted |-> r.faulted, raised |-> r.raised,
                      n |-> cop.n + 1]
  /\ UNCHANGED OtherThanCache

CacheNext == Get \/ Set \/ Clear

(***************************************************************************)
(*                       Properties of the cache                           *)
(***************************************************************************)

\* The store the last operation read, and the entry a set writes.
Before == cachePre.file.entries

Written ==
  [key |-> cop.key, response |-> cop.ret.value, timestamp |-> cop.now,
   expiresAt |-> cop.now + cacheDuration]

Members(entries) == {entries[i] : i \in 1..Len(entries)}

\* The step is a get that immediately follows a set of the same key, no
\* step of either call failed, and the TTL of the set has not elapsed.
SetThenGet ==
  /\ cop.op = "set" /\ ~cop.faulted
  /\ cop'.op = "get" /\ ~cop'.faulted
  /\ cop'.key = cop.key
  /\ cop'.now <= cop.now + cacheDuration

\* The step is a get that immediately follows a set for another tuple, no
\* step of either call failed, and the store held no entry under the get's
\* key before the set.
SetThenGetOther ==
  /\ cop.op = "set" /\ ~cop.faulted
  /\ cop'.op = "get" /\ ~cop'.faulted
  /\ cop'.args # cop.args
  /\ KeyIndex(Before, cop'.key) = 0

\* C29: two requests that differ in any of input, platform, arch, shell or
\* learningMode never share a cache entry, also when a field holds the
\* separator character: the text their keys are hashed from differs, so a
\* get never returns what was set for another tuple.
C29_NoSharedEntry ==
  [][SetThenGetOther => (cop'.key # cop.key /\ IsNull(cop'.ret))]_vars

\* The set found maxEntries entries of other keys, every one of them with a
\* timestamp later than its own reading of the clock.
WroteTheOldest ==
  /\ KeyIndex(Before, cop.key) = 0
  /\ Len(Before) >= maxEntries
  /\ \A i \in 1..Len(Before) : Before[i].timestamp > cop.now

\* C7 as stated: a set followed immediately by a get of the same tuple, with
\* the TTL not elapsed and no I/O failure, returns exactly the response set.
C7_RoundTrip == [][SetThenGet => cop'.ret = cop.ret]_vars

\* C7: a set followed immediately by a get of the same tuple, with the TTL
\* not elapsed and no I/O failure, returns exactly the response set, unless
\* the set found the store full of entries that are all newer than its own.
C7_RoundTripUnlessEvicted ==
  [][(SetThenGet /\ ~WroteTheOldest) => cop'.ret = cop.ret]_vars

\* A get answered from a full store with the response written just before it.
C7_Witness ==
  /\ cop.op = "get" /\ cop.n = 2 /\ ~cop.faulted
  /\ Len(Before) = maxEntries
  /\ ~IsNull(cop.ret) /\ cop.ret.value = "dir"

\* The last operation is a set that completed and added a key to a store
\* that already held maxEntries entries.
SetOverflowed ==
  /\ cop.op = "set" /\ ~cop.faulted
  /\ Len(Before) = maxEntries
  /\ KeyIndex(Before, cop.key) = 0

\* C8: the live store never holds more than 500 entries, and a set that
\* brings the count to 501 removes exactly one entry, one with the smallest
\* timestamp of the 501; the new entry goes only if it is itself oldest.
C8_EvictionBound ==
  /\ Len(cacheFile.entries) <= maxEntries
  /\ SetOverflowed =>
       LET all  == Members(Before) \cup {Written}
           kept == Members(cacheFile.entries)
           gone == all \ kept
       IN  /\ Len(cacheFile.entries) = maxEntries
           /\ kept \subseteq all
           /\ Cardinality(gone) = 1
           /\ \A g \in gone : \A e \in all : g.timestamp <= e.timestamp
           /\ Written \in gone => \A e \in all : Written.timestamp <= e.timestamp

\* A set overflowed the store and an older entry of another key went.
C8_Witness ==
  /\ SetOverflowed
  /\ KeyIndex(cacheFile.entries, cop.key) # 0
  /\ Len(cacheFile.entries) = maxEntries

\* The last operation is a get that read the store and found its key.
GetFound ==
  /\ cop.op = "get"
  /\ cop.fault \notin {"pathExists", "readJson"}
  /\ cachePre.file.exists /\ cachePre.file.complete
  /\ KeyIndex(Before, cop.key) # 0

Found == Before[KeyIndex(Before, cop.key)]

\* The found entry, and nothing else, is gone from the live store.
OnlyFoundDeleted ==
  /\ Members(cacheFile.entries) = Members(Before) \ {Found}
  /\ Len(cacheFile.entries) = Len(Before) - 1

NothingWritten == cacheFile = cachePre.file /\ cacheTmp = cachePre.tmp

\* C9 as stated: a get that finds an expired entry returns null and deletes
\* that entry from the persisted store, leaving every other entry unchanged;
\* a get that finds an unexpired entry returns its response and writes nothing.
C9_ExpiredDeleted ==
  GetFound =>
    IF cop.now > Found.expiresAt
      THEN IsNull(cop.ret) /\ OnlyFoundDeleted
      ELSE cop.ret = [value |-> Found.response] /\ NothingWritten

\* C9: a get that finds an expired entry returns null and, when the write of
\* the store succeeds, has deleted exactly that entry from the persisted
\* store; when the write fails the persisted store keeps the entry; a get
\* that finds an unexpired entry returns its response and writes nothing.
C9_ExpiredDeletedIfWritten ==
  GetFound =>
    IF cop.now > Found.expiresAt
      THEN /\ IsNull(cop.ret)
           /\ IF cop.faulted THEN cacheFile = cachePre.file ELSE OnlyFoundDeleted
      ELSE cop.ret = [value |-> Found.response] /\ NothingWritten

\* An expired entry was read from a full store and deleted from it.
C9_Witness ==
  /\ GetFound /\ ~cop.faulted
  /\ cop.now > Found.expiresAt
  /\ Len(Before) = maxEntries
  /\ Len(cacheFile.entries) = maxEntries - 1

\* C10: no cache operation raises to its caller, and a get in which a file
\* system step failed, or that found no cache file, returns null.
C10_NeverFailsCaller ==
  cop.op # "none" =>
    /\ ~cop.raised
    /\ (cop.op = "get" /\ (cop.faulted \/ ~cachePre.file.exists)) => IsNull(cop.ret)

\* A get whose write of the store without the expired entry failed.
C10_Witness ==
  /\ cop.op = "get" /\ cop.faulted /\ cop.fault = "writeJson"
  /\ IsNull(cop.ret) /\ ~cop.raised

(***************************************************************************)
(*                            StorageManager                               *)
(*                                                                         *)
(* The vault file is [exists, readable, entries]; an entry carries its     *)
(* commands, description, tags, usageCount, the whole days since lastUsed  *)
(* and its confidence in hundredths.  Scores are in tenths.                *)
(***************************************************************************)

Min(a, b) == IF a <= b THEN a ELSE b

\* StorageManager.calculateRelevanceScore
calculateRelevanceScore(command, query) ==
  (IF Includes(ToLowerCase(Join(command.commands, " ")), query) THEN 1000 ELSE 0)
  + (IF Includes(ToLowerCase(command.description), query) THEN 500 ELSE 0)
  + 250 * Cardinality({i \in 1..Len(command.tags) :
                         Includes(ToLowerCase(command.tags[i]), query)})
  + 10 * Min(command.usageCount * 5, 50)
  + (IF command.daysSinceUsed < 7 THEN 100
     ELSE IF command.daysSinceUsed < 30 THEN 50 ELSE 0)
  + command.confidence

\* Array.prototype.sort((a, b) => b.score - a.score): stable, descending.
RECURSIVE SortByScore(_)
SortByScore(scored) ==
  IF scored = <<>> THEN <<>>
  ELSE LET best == SetMax({scored[i].score : i \in 1..Len(scored)})
           k    == SetMin({i \in 1..Len(scored) : scored[i].score = best})
       IN  <<scored[k]>> \o
           SortByScore(SubSeq(scored, 1, k - 1) \o SubSeq(scored, k + 1, Len(scored)))

\* StorageManager.searchCommands on the entries getAllCommands returned.
searchCommands(entries, query, limit) ==
  LET q      == Trim(ToLowerCase(query))
      scored == [i \in 1..Len(entries) |->
                   [entry |-> entries[i], score |-> calculateRelevanceScore(entries[i], q)]]
      sorted == SortByScore(SelectSeq(scored, LAMBDA c : c.score > 0))
  IN  [i \in 1..Min(limit, Len(sorted)) |-> sorted[i].entry]

\* StorageManager.init on [file, initialized]: a missing vault file is
\* created holding the empty list.
stInit(st) ==
  IF st.initialized THEN st
  ELSE [file |-> IF st.file.exists THEN st.file
                 ELSE [exists |-> TRUE, readable |-> TRUE, entries |-> <<>>],
        initialized |-> TRUE]

(***************************************************************************)
(*                    AIService.generateCommand                            *)
(*                                                                         *)
(* The provider configuration is [envKey, config]: whether GEMINI_API_KEY  *)
(* is set, and the config file as "absent", "gemini" (a gemini provider    *)
(* with a key), "other" or "unreadable".  The network answers a call with  *)
(* [kind, text]: "text" carries the candidate text, "status" is a          *)
(* non-success HTTP status, "network" a rejected fetch, "empty" a body     *)
(* without candidates.                                                     *)
(***************************************************************************)

\* /\bthen\b|\band\b|\bafter that\b|\bfollowed by\b/i
wantsMultiplePatterns ==
  { <<WordB, Lit("then"), WordB>>, <<WordB, Lit("and"), WordB>>,
    <<WordB, Lit("after that"), WordB>>, <<WordB, Lit("followed by"), WordB>> }

\* A heuristic that never takes a request for a multi-step one.
WantsMultipleNever(text) == FALSE

WantsMultiple(text) == \E p \in wantsMultiplePatterns : RegexTestI(p, text)

\* A provider lookup that finds the gemini provider whatever is configured.
getAvailableProviderAlways(env) == [provider |-> [name |-> "gemini"], thrown |-> FALSE]

\* AIService.getAvailableProvider: [provider, thrown]; provider is NULL or
\* the provider record.
getAvailableProvider(env) ==
  IF env.envKey THEN [provider |-> [name |-> "gemini"], thrown |-> FALSE]
  ELSE IF env.config = "unreadable" THEN [provider |-> NULL, thrown |-> TRUE]
  ELSE IF env.config = "gemini" THEN [provider |-> [name |-> "gemini"], thrown |-> FALSE]
  ELSE [provider |-> NULL, thrown |-> FALSE]

\* AIService.callAI: NULL or [value |-> text]; every failure is caught.
callAI(provider, reply) ==
  IF provider.name # "gemini" THEN NULL
  ELSE IF reply.kind = "text" THEN [value |-> Trim(reply.text)]
  ELSE NULL

\* The try block of AIService.generateCommand: [result, file, tmp, calls,
\* text, thrown].  calls lists the cache and network calls made, in order;
\* text is the response handed to parseAIResponse, "" when there is none.
\* net is what the call meets: [reply, now, fault], the network's answer,
\* the clock and the cache file step that fails.
generateBody(input, os, learningMode, file, tmp, env, net) ==
  LET wantsMultiple == WantsMultiple(input)
      key  == getCacheKey(input, os, learningMode)
      out(r, f, t, c, x) ==
        [result |-> r, file |-> f, tmp |-> t, calls |-> c, text |-> x, thrown |-> FALSE]
      stored(got, response) ==
        The({out(parseAIResponse(response.value, wantsMultiple, learningMode),
                 put.file, put.tmp, <<"cache.get", "network", "cache.set">>, response.value) :
             put \in {cacheSet(got.file, got.tmp, key, net.now, response.value, net.fault)}})
      asked(got, prov) ==
        The({IF IsNull(response) \/ response.value = ""
               THEN out(NULL, got.file, got.tmp, <<"cache.get", "network">>, "")
             ELSE stored(got, response) :
             response \in {callAI(prov.provider, net.reply)}})
      uncached(got) ==
        The({IF prov.thrown
               THEN [result |-> NULL, file |-> got.file, tmp |-> got.tmp,
                     calls |-> <<"cache.get">>, text |-> "", thrown |-> TRUE]
             ELSE IF IsNull(prov.provider)
               THEN out(NULL, got.file, got.tmp, <<"cache.get">>, "")
             ELSE asked(got, prov) :
             prov \in {getAvailableProvider(env)}})
  IN  The({IF ~IsNull(got.ret) /\ got.ret.value # ""
             THEN out(parseAIResponse(got.ret.value, wantsMultiple, learningMode),
                      got.file, got.tmp, <<"cache.get">>, got.ret.value)
           ELSE uncached(got) :
           got \in {cacheGet(file, tmp, key, net.now, net.fault)}})

\* A generateCommand without its catch clause: a failure reaches the caller.
generateCommandUncaught(input, os, learningMode, file, tmp, env, net) ==
  The({[result |-> b.result, file |-> b.file, tmp |-> b.tmp, calls |-> b.calls,
        text |-> b.text, raised |-> b.thrown] :
       b \in {generateBody(input, os, learningMode, file, tmp, env, net)}})

\* AIService.generateCommand: catch (error) { ...; return null }.
generateCommand(input, os, learningMode, file, tmp, env, net) ==
  The({[result |-> IF b.thrown THEN NULL ELSE b.result, file |-> b.file, tmp |-> b.tmp,
        calls |-> b.calls, text |-> b.text, raised |-> FALSE] :
       b \in {generateBody(input, os, learningMode, file, tmp, env, net)}})

(***************************************************************************)
(*                            CommandResolver                              *)
(***************************************************************************)

\* best.confidence < 0.6, in hundredths
VaultThreshold == 60

\* A searchVault that returns the best match whatever its confidence.
searchVaultAnyConfidence(st, input) ==
  LET st1     == stInit(st)
      results == searchCommands(st1.file.entries, input, 10)
      best    == results[1]
  IN  IF ~st1.file.readable \/ Len(results) = 0 THEN [result |-> NULL, st |-> st1]
      ELSE [result |-> [commands    |-> best.commands,
                        explanation |-> best.description,
                        tags        |-> best.tags,
                        confidence  |-> best.confidence,
                        source      |-> "vault",
                        variables   |-> best.variables],
            st |-> st1]

\* CommandResolver.searchVault: [result, st]; a failing read is caught.
searchVault(st, input) ==
  LET st1     == stInit(st)
      results == searchCommands(st1.file.entries, input, 10)
      best    == results[1]
  IN  IF ~st1.file.readable THEN [result |-> NULL, st |-> st1]
      ELSE IF Len(results) = 0 THEN [result |-> NULL, st |-> st1]
      ELSE IF best.confidence < VaultThreshold THEN [result |-> NULL, st |-> st1]
      ELSE [result |-> [commands    |-> best.commands,
                        explanation |-> best.description,
                        tags        |-> best.tags,
                        confidence  |-> best.confidence,
                        source      |-> "vault",
                        variables   |-> best.variables],
            st |-> st1]

Rule(commands, explanation, tag, confidence) ==
  [commands |-> commands, explanation |-> explanation, tags |-> <<tag>>,
   confidence |-> confidence, source |-> "rule"]

\* CommandResolver.applyRules
applyRules(input, os) ==
  IF Includes(input, "list files") \/ Includes(input, "show files") \/ input = "ls"
    THEN Rule(<<IF os.platform = "windows" THEN "dir" ELSE "ls -la">>,
              "List files and directories", "filesystem", 90)
  ELSE IF Includes(input, "create folder") \/ Includes(input, "make directory")
    THEN Rule(<<IF os.platform = "windows" THEN "mkdir" ELSE "mkdir -p">>,
              "Create a directory", "filesystem", 90)
  ELSE IF Includes(input, "list processes") \/ input = "ps"
    THEN Rule(<<IF os.platform = "windows" THEN "tasklist" ELSE "ps aux">>,
              "List running processes", "process", 90)
  ELSE IF Includes(input, "git status") \/ Includes(input, "check git")
    THEN Rule(<<"git status">>, "Show git working tree status", "git", 95)
  ELSE NULL

\* The answer of a tier: the tier's name and what it returned.
Call(tier, result) == [tier |-> tier, result |-> result]

\* { ...result, source }
WithSource(result, source) == [source |-> source] @@ result

(***************************************************************************)
(* Calls of resolve.  The operating system, the plugin directory, the      *)
(* vault and the provider configuration are fixed by the environment; each *)
(* call meets its own network answer, clock reading and cache fault.       *)
(***************************************************************************)

MaxResolves == 2

Windows == [platform |-> "windows", arch |-> "x64", shell |-> "powershell"]

ResolveInputs == {"  List Files ", "list files and then check git", "deploy app"}

Requests == [input : ResolveInputs, learningMode : BOOLEAN, suggestMode : BOOLEAN]

ResolveDirectories ==
  { MissingDirectory,
    Directory(<<PluginFile("quiet.js", PQuiet), PluginFile("faulty.js", PFaulty)>>),
    Directory(<<PluginFile("faulty.js", PFaulty), PluginFile("rule.js", PRule)>>) }

VaultEntry(commands, description, confidence) ==
  [commands |-> commands, description |-> description, tags |-> <<>>,
   usageCount |-> 0, daysSinceUsed |-> 0, confidence |-> confidence, variables |-> {}]

VaultFiles ==
  { [exists |-> FALSE, readable |-> TRUE, entries |-> <<>>],
    [exists |-> TRUE, readable |-> FALSE, entries |-> <<>>],
    [exists |-> TRUE, readable |-> TRUE,
     entries |-> <<VaultEntry(<<"git status">>, "Command: git status", 50)>>],
    [exists |-> TRUE, readable |-> TRUE,
     entries |-> <<VaultEntry(<<"git status">>, "Command: git status", 50),
                   VaultEntry(<<"deploy app">>, "Command: deploy app", 70)>>] }

ProviderConfigs ==
  {[envKey |-> TRUE, config |-> "absent"], [envKey |-> FALSE, config |-> "absent"]}

Replies ==
  { [kind |-> "status", text |-> ""],
    [kind |-> "text", text |-> "ls -la"],
    [kind |-> "text", text |-> "git add . && git commit -m {msg}"],
    [kind |-> "text", text |-> "ls_JSON_{\"concepts\":[]}"],
    [kind |-> "text", text |-> "ls_JSON_{\"commands\":[]}"],
    [kind |-> "text", text |-> "ls_JSON_{\"source\":\"vault\"}"] }

Networks == [reply : Replies, now : {T0, T0 + 1 + cacheDuration}, fault : {"none"}]

\* What resolve records of a gateway it did not reach.
NoGateway == [calls |-> <<>>, text |-> "", raised |-> FALSE]

NoCalls == [tiers |-> <<>>, gateway |-> <<>>, answer |-> "", raised |-> FALSE, n |-> 0]

ResolveInit ==
  /\ rin = [input |-> "", learningMode |-> FALSE, suggestMode |-> FALSE]
  /\ rresult = NULL
  /\ rcalls = NoCalls
  /\ rpc = "idle"
  /\ ros \in {Linux, Windows}
  /\ crInitialized = FALSE
  /\ stInitialized = FALSE
  /\ vaultFile \in VaultFiles
  /\ aiEnv \in ProviderConfigs
  /\ pluginDir \in ResolveDirectories
  /\ plugins = <<>>
  /\ pmInitialized = FALSE
  /\ cacheFile = NoFile
  /\ cacheTmp = NoFile
  /\ cachePre = [file |-> NoFile, tmp |-> NoFile]
  /\ cop = NoOp

\* resolve ends for the request req: with result, or raising when the
\* gateway call ai raised; tiers are the tiers consulted, ai what the gateway
\* did (NoGateway when it was not reached), pm, st, file and tmp the plugin
\* manager, the storage manager and the cache files as the call leaves them.
Returned(req, result, tiers, ai, pm, st, file, tmp) ==
  /\ rin' = req
  /\ rresult' = result
  /\ rcalls' = [tiers |-> tiers, gateway |-> ai.calls, answer |-> ai.text,
                raised |-> ai.raised, n |-> rcalls.n + 1]
  /\ rpc' = "returned"
  /\ crInitialized' = TRUE
  /\ pluginDir' = pm.dir
  /\ plugins' = pm.plugins
  /\ pmInitialized' = pm.initialized
  /\ vaultFile' = st.file
  /\ stInitialized' = st.initialized
  /\ cacheFile' = file
  /\ cacheTmp' = tmp
  /\ UNCHANGED <<ros, aiEnv, cachePre, cop, parseVars, safetyVars, writerVars, hookVars,
                 gatewayVars, cliVars, searchVars, raceVars>>

\* CommandResolver.resolve(req.input, ros, req.learningMode, req.suggestMode)
\* for a request of requests, the gateway meeting a network of networks.
ResolveWith(requests, networks) ==
  /\ rcalls.n < MaxResolves
  /\ \E req \in requests :
     \E pm \in {IF crInitialized
                  THEN [dir |-> pluginDir, plugins |-> plugins, initialized |-> pmInitialized]
                  ELSE pmInit([dir |-> pluginDir, plugins |-> plugins,
                               initialized |-> pmInitialized])} :
     \E rawInput \in {Trim(req.input)} :
     \E matchInput \in {ToLowerCase(rawInput)} :
     \E wantsMultiple \in {WantsMultiple(matchInput)} :
     \E pluginResult \in {getRules(pm.plugins)} :
     \E st \in {[file |-> vaultFile, initialized |-> stInitialized]} :
     \E c1 \in {<<Call("plugin", pluginResult)>>} :
       IF ~IsNull(pluginResult)
         THEN Returned(req, WithSource(pluginResult, "rule"), c1, NoGateway,
                       pm, st, cacheFile, cacheTmp)
       ELSE
     \E vault \in {IF req.suggestMode THEN [result |-> NULL, st |-> st]
                   ELSE searchVault(st, matchInput)} :
     \E c2 \in {IF req.suggestMode THEN c1 ELSE Append(c1, Call("vault", vault.result))} :
       IF ~IsNull(vault.result)
         THEN Returned(req, WithSource(vault.result, "vault"), c2, NoGateway,
                       pm, vault.st, cacheFile, cacheTmp)
       ELSE
     \E ruleResult \in {IF wantsMultiple THEN NULL ELSE applyRules(matchInput, ros)} :
     \E c3 \in {IF wantsMultiple THEN c2 ELSE Append(c2, Call("rules", ruleResult))} :
       IF ~IsNull(ruleResult)
         THEN Returned(req, WithSource(ruleResult, "rule"), c3, NoGateway,
                       pm, vault.st, cacheFile, cacheTmp)
       ELSE
     \E net \in networks :
     \E ai \in {generateCommand(rawInput, ros, req.learningMode,
                                cacheFile, cacheTmp, aiEnv, net)} :
       Returned(req, ai.result, Append(c3, Call("ai", ai.result)), ai,
                pm, vault.st, ai.file, ai.tmp)

Resolve == ResolveWith(Requests, Networks)

ResolveNext == Resolve

(***************************************************************************)
(*                      Properties of the resolver                         *)
(***************************************************************************)

\* The place of a tier in the pipeline and the source tag of its answers.
TierRank(tier) ==
  CASE tier = "plugin" -> 1 [] tier = "vault" -> 2 [] tier = "rules" -> 3 [] tier = "ai" -> 4

TierSource(tier) ==
  CASE tier = "plugin" -> "rule" [] tier = "vault" -> "vault"
    [] tier = "rules" -> "rule" [] tier = "ai" -> "ai"

\* The result is what the answering tier returned, under the tier's tag.
AnswerOf(call, result) ==
  /\ ~IsNull(result)
  /\ result.source = TierSource(call.tier)
  /\ \A f \in DOMAIN call.result \ {"source"} : f \in DOMAIN result /\ result[f] = call.result[f]

\* C2: resolve consults the tiers in the order plugin hooks, vault, built-in
\* rules, AI gateway (a tier may be passed over, none is consulted out of
\* order), starting with the plugins; no tier is consulted after one has
\* answered, the AI gateway makes no call unless the AI tier is reached, and
\* the result is the answer of the first answering tier tagged rule, vault,
\* rule or ai accordingly, or null when no tier answered.
C2_TierOrder ==
  rpc = "returned" =>
    LET t == rcalls.tiers
        n == Len(t)
    IN  /\ n >= 1 /\ t[1].tier = "plugin"
        /\ \A i \in 1..(n - 1) : TierRank(t[i].tier) < TierRank(t[i + 1].tier)
        /\ \A i \in 1..(n - 1) : IsNull(t[i].result)
        /\ rcalls.gateway # <<>> => t[n].tier = "ai"
        /\ IF IsNull(t[n].result) THEN IsNull(rresult) ELSE AnswerOf(t[n], rresult)

\* C3: every non-null result of resolve, from any tier and in normal as well
\* as learning mode, has at least one command and a confidence in [0, 1]
\* (0..100 in hundredths).
C3_ResultWellFormed ==
  (rpc = "returned" /\ ~IsNull(rresult)) =>
    /\ Len(rresult.commands) >= 1
    /\ rresult.confidence \in 0..100

(***************************************************************************)
(*                  Concurrent writers of the cache file                   *)
(*                                                                         *)
(* Each invocation of the tool is a process of its own running             *)
(* CacheManager.set against the same two paths, cache.json and             *)
(* cache.json.tmp.  Its steps are the awaited file system calls: the read  *)
(* of the live file, writeJson opening (and truncating) the temporary      *)
(* file, writeJson writing its data, and move renaming the temporary file  *)
(* over the live one.  A writer holds its open file by inode, so a rename  *)
(* by another writer carries the open file to the live path.  A process    *)
(* may be killed between any two steps.                                    *)
(***************************************************************************)

NumWriters == 2

Writers == 1..NumWriters

WriterResponses == [w \in Writers |-> IF w = 1 THEN "ls -la" ELSE "dir"]

WriterStores == {NoFile, FileOf(Fillers(2))}

\* fs.writeFile on an open file: the data goes to offset 0; data shorter
\* than what another writer left there leaves that writer's tail behind it.
WriteOver(present, entries) ==
  IF present.complete /\ Len(present.entries) > Len(entries) THEN TornFile
  ELSE FileOf(entries)

WriterInit ==
  /\ cacheFile \in WriterStores
  /\ cacheTmp = NoFile
  /\ cachePre = [file |-> NoFile, tmp |-> NoFile]
  /\ cop = NoOp
  /\ wpc = [w \in Writers |-> "start"]
  /\ wcache = [w \in Writers |-> <<>>]
  /\ wfd = [w \in Writers |-> "none"]

OtherThanWriters ==
  <<cachePre, cop, parseVars, pluginVars, safetyVars, resolveVars, hookVars, gatewayVars,
    cliVars, searchVars, raceVars>>

\* set, up to evictOldEntries: ensureCacheDir, pathExists, readJson, the
\* assignment of the entry, the eviction.  A live file that does not parse
\* makes readJson throw, and the catch ends the call.
WRead(w) ==
  /\ wpc[w] = "start"
  /\ IF cacheFile.exists /\ ~cacheFile.complete
       THEN wpc' = [wpc EXCEPT ![w] = "done"] /\ UNCHANGED wcache
       ELSE \E t \in CacheTuples, now \in {T0, T0 + 1} :
              /\ wcache' = [wcache EXCEPT ![w] =
                   evictOldEntries(PutKey(
                     IF cacheFile.exists THEN cacheFile.entries ELSE <<>>,
                     [key |-> KeyOf(t), response |-> WriterResponses[w],
                      timestamp |-> now, expiresAt |-> now + cacheDuration]))]
              /\ wpc' = [wpc EXCEPT ![w] = "read"]
  /\ UNCHANGED <<cacheFile, cacheTmp, wfd, OtherThanWriters>>

\* writeCache: fs.writeJson(tmpPath, cache) opens the temporary path for
\* writing, which creates it or truncates the file that is there.
WOpen(w) ==
  /\ wpc[w] = "read"
  /\ cacheTmp' = TornFile
  /\ wfd' = [wfd EXCEPT ![w] = "tmp"]
  /\ wpc' = [wpc EXCEPT ![w] = "writing"]
  /\ UNCHANGED <<cacheFile, wcache, OtherThanWriters>>

\* writeCache: fs.writeJson writes the serialized cache to the file it
\* opened, wherever that file is by now, and closes it.
WWrite(w) ==
  /\ wpc[w] = "writing"
  /\ cacheTmp' = IF wfd[w] = "tmp" THEN WriteOver(cacheTmp, wcache[w]) ELSE cacheTmp
  /\ cacheFile' = IF wfd[w] = "live" THEN WriteOver(cacheFile, wcache[w]) ELSE cacheFile
  /\ wfd' = [wfd EXCEPT ![w] = "none"]
  /\ wpc' = [wpc EXCEPT ![w] = "written"]
  /\ UNCHANGED <<wcache, OtherThanWriters>>

\* writeCache: fs.move(tmpPath, cachePath, { overwrite: true }), taken as
\* one rename.  With no temporary file left it throws and the catch of set
\* ends the call.
WMove(w) ==
  /\ wpc[w] = "written"
  /\ IF ~cacheTmp.exists
       THEN UNCHANGED <<cacheFile, cacheTmp, wfd>>
       ELSE /\ cacheFile' = cacheTmp
            /\ cacheTmp' = NoFile
            /\ wfd' = [v \in Writers |->
                         IF wfd[v] = "tmp" THEN "live"
                         ELSE IF wfd[v] = "live" THEN "unlinked" ELSE wfd[v]]
  /\ wpc' = [wpc EXCEPT ![w] = "done"]
  /\ UNCHANGED <<wcache, OtherThanWriters>>

\* The process is killed between two steps of its write.
WCrash(w) ==
  /\ wpc[w] \in {"read", "writing", "written"}
  /\ wpc' = [wpc EXCEPT ![w] = "crashed"]
  /\ wfd' = [wfd EXCEPT ![w] = "none"]
  /\ UNCHANGED <<cacheFile, cacheTmp, wcache, OtherThanWriters>>

WriterNext ==
  \E w \in Writers : WRead(w) \/ WOpen(w) \/ WWrite(w) \/ WMove(w) \/ WCrash(w)

(***************************************************************************)
(*                 Properties of the concurrent writers                    *)
(***************************************************************************)

\* C11: with two invocations writing the cache concurrently, the live cache
\* file is at every moment a complete JSON object written by one writer,
\* whatever the interleaving and wherever a writer is killed.
C11_LiveFileNeverTorn == cacheFile.exists => cacheFile.complete

(***************************************************************************)
(*                     Calls of the plugin manager                         *)
(*                                                                         *)
(* hcall is the last call made on the PluginManager: the method, what it   *)
(* returned, the plugins whose hook it invoked, in order, and the number   *)
(* of calls made so far.                                                   *)
(***************************************************************************)

MaxHookCalls == 4

\* A truthy hook return value that is no result object (a string, say).
Malformed == [malformed |-> TRUE]

IsMalformed(value) == "malformed" \in DOMAIN value

PluginRule2 ==
  [commands |-> <<"echo second">>, explanation |-> "second plugin rule", tags |-> <<>>,
   confidence |-> 80]

PRule2 == Candidate("rule2", Returns(PluginRule2), Returns(PluginBlocks), Returns(NULL))

PMalformed == Candidate("malformed", Returns(Malformed), Returns(Malformed), Returns(NULL))

\* A second plugin that calls itself "rule".
PRuleCopy == Candidate("rule", Returns(PluginRule2), NoHook, Returns(NULL))

\* Candidates whose version, or whose name, is no string.
PNoVersion == [PQuiet EXCEPT !.versionIsString = FALSE]

PNoName == [PAllow EXCEPT !.nameIsString = FALSE]

PLate == Candidate("late", Returns(PluginRule2), Returns(PluginBlocks), Returns(NULL))

PluginDirectories ==
  { MissingDirectory,
    Directory(<<PluginFile("rule.js", PRule), PluginFile("rule2.js", PRule2)>>),
    Directory(<<PluginFile("quiet.js", PQuiet), PluginFile("faulty.js", PFaulty),
                PluginFile("rule2.js", PRule2), PluginFile("rule.js", PRule)>>),
    Directory(<<PluginFile("faulty.js", PFaulty), PluginFile("allow.js", PAllow),
                PluginFile("block.js", PBlock), PluginFile("quiet.js", PQuiet)>>),
    Directory(<<PluginFile("malformed.js", PMalformed), PluginFile("rule.js", PRule)>>),
    Directory(<<PluginFile("notes.txt", PRule), PluginFile("badrule.js", PBadRule),
                PluginFile("faulty.js", PFaulty)>>),
    Directory(<<PluginFile("rule.js", PRule), PluginFile("rule-copy.js", PRuleCopy),
                PluginFile("noversion.js", PNoVersion), PluginFile("noname.js", PNoName)>>) }

\* Files that appear in the plugin directory while the tool runs.
LateFiles == {PluginFile("late.js", PLate), PluginFile("rule-late.js", PRuleCopy)}

NoHookCall == [hook |-> "none", result |-> NULL, invoked |-> <<>>, n |-> 0]

PluginInit ==
  /\ pluginDir \in PluginDirectories
  /\ plugins = <<>>
  /\ pmInitialized = FALSE
  /\ hcall = NoHookCall

OtherThanPlugins ==
  <<parseVars, safetyVars, cacheVars, resolveVars, writerVars, gatewayVars,
    cliVars, searchVars, raceVars>>

\* PluginManager.init()
PmInit ==
  /\ hcall.n < MaxHookCalls
  /\ \E pm \in {pmInit([dir |-> pluginDir, plugins |-> plugins,
                        initialized |-> pmInitialized])} :
       /\ pluginDir' = pm.dir
       /\ plugins' = pm.plugins
       /\ pmInitialized' = pm.initialized
  /\ hcall' = [hook |-> "init", result |-> NULL, invoked |-> <<>>, n |-> hcall.n + 1]
  /\ UNCHANGED OtherThanPlugins

\* PluginManager.getRules(input, os)
GetRules ==
  /\ hcall.n < MaxHookCalls
  /\ \E r \in {HookRun(plugins, "rules", 1, <<>>)} :
       hcall' = [hook |-> "getRules", result |-> r.result, invoked |-> r.invoked,
                 n |-> hcall.n + 1]
  /\ UNCHANGED <<pluginDir, plugins, pmInitialized, OtherThanPlugins>>

\* PluginManager.getSafetyChecks(command)
GetSafetyChecks ==
  /\ hcall.n < MaxHookCalls
  /\ \E r \in {HookRun(plugins, "safety", 1, <<>>)} :
       hcall' = [hook |-> "getSafetyChecks", result |-> r.result, invoked |-> r.invoked,
                 n |-> hcall.n + 1]
  /\ UNCHANGED <<pluginDir, plugins, pmInitialized, OtherThanPlugins>>

\* PluginManager.onCommandExecuted(command, success)
OnCommandExecuted ==
  /\ hcall.n < MaxHookCalls
  /\ hcall' = [hook |-> "onCommandExecuted", result |-> NULL,
               invoked |-> onCommandExecuted(plugins), n |-> hcall.n + 1]
  /\ UNCHANGED <<pluginDir, plugins, pmInitialized, OtherThanPlugins>>

\* A plugin file is put into the directory; the running manager is not told.
InstallPlugin ==
  /\ pluginDir.exists /\ pluginDir.readable
  /\ \E f \in LateFiles :
       /\ \A k \in 1..Len(pluginDir.files) : pluginDir.files[k].file # f.file
       /\ pluginDir' = [pluginDir EXCEPT !.files = Append(@, f)]
  /\ UNCHANGED <<plugins, pmInitialized, hcall, OtherThanPlugins>>

PluginNext == PmInit \/ GetRules \/ GetSafetyChecks \/ OnCommandExecuted \/ InstallPlugin

(***************************************************************************)
(*                   Properties of the plugin manager                      *)
(***************************************************************************)

\* The place of the plugin called name in this.plugins.
PlaceOf(name) == CHOOSE i \in 1..Len(plugins) : plugins[i].name = name

\* The plugins invoked are distinct and were invoked in load order.
InLoadOrder(invoked) ==
  \A a, b \in 1..Len(invoked) : a < b => PlaceOf(invoked[a]) < PlaceOf(invoked[b])

Invoked == {hcall.invoked[a] : a \in 1..Len(hcall.invoked)}

\* C13: getRules walks the plugins in load order and stops at the first
\* non-null result: the hooks invoked are those of the plugins implementing
\* getRules up to and including the first that answers, and the hook of no
\* plugin after it is invoked.
C13_RulesShortCircuit ==
  hcall.hook = "getRules" =>
    LET answering == Answering(plugins, "rules")
    IN  /\ InLoadOrder(hcall.invoked)
        /\ \A i \in 1..Len(plugins) :
             plugins[i].name \in Invoked <=>
               /\ plugins[i].rules.kind # "none"
               /\ answering # {} => i <= SetMin(answering)
        /\ hcall.result = IF answering = {} THEN NULL
                          ELSE plugins[SetMin(answering)].rules.value

\* Two loaded plugins answer getRules and only the first was invoked.
C13_Witness ==
  /\ hcall.hook = "getRules"
  /\ Cardinality(Answering(plugins, "rules")) = 2
  /\ Len(plugins) = 2
  /\ hcall.invoked = <<plugins[1].name>>
  /\ hcall.result = plugins[1].rules.value

\* The places of the plugins whose hook returns a well-formed result.
WellAnswering(list, hook) ==
  {i \in Answering(list, hook) : ~IsMalformed(list[i][hook].value)}

\* C14: a plugin's fault in a hook, an exception or a malformed return
\* value, is contained: getRules and getSafetyChecks go on to the remaining
\* plugins and return the first well-formed result (null when there is
\* none), and onCommandExecuted reaches every plugin that implements it.
C14_PluginFaultsContained ==
  /\ hcall.hook \in {"getRules", "getSafetyChecks"} =>
       LET hook == IF hcall.hook = "getRules" THEN "rules" ELSE "safety"
           good == WellAnswering(plugins, hook)
       IN  hcall.result = IF good = {} THEN NULL ELSE plugins[SetMin(good)][hook].value
  /\ hcall.hook = "onCommandExecuted" =>
       /\ InLoadOrder(hcall.invoked)
       /\ Invoked = {plugins[i].name : i \in {j \in 1..Len(plugins) :
                                                plugins[j].observer.kind # "none"}}

\* The files of the directory that loadPlugins would offer for registration:
\* .js files that load and expose a string name and a string version.
Offered == {k \in 1..Len(pluginDir.files) :
              /\ EndsWith(pluginDir.files[k].file, ".js")
              /\ pluginDir.files[k].loads
              /\ pluginDir.files[k].plugin.nameIsString
              /\ pluginDir.files[k].plugin.versionIsString}

\* C25: the registry is free of duplicates.  Every registered plugin has a
\* string name and a string version and is the first file of the directory
\* offering its name, no two registered plugins share a name, and once init
\* has run, further calls of init leave the registry as it is: the directory
\* is loaded once.
C25_RegistryWithoutDuplicates ==
  /\ [](/\ \A i, j \in 1..Len(plugins) : i # j => plugins[i].name # plugins[j].name
        /\ \A i \in 1..Len(plugins) :
             /\ plugins[i].nameIsString /\ plugins[i].versionIsString
             /\ \E k \in Offered :
                  /\ pluginDir.files[k].plugin = plugins[i]
                  /\ \A m \in Offered :
                       pluginDir.files[m].plugin.name = plugins[i].name => k <= m)
  /\ [][pmInitialized => plugins' = plugins]_vars

\* init was called again after a file with a registered name and a file with
\* a new name were put into the loaded directory, which also holds a
\* duplicate name and candidates without a string name or version: the
\* registry still holds the one first-loaded plugin.
C25_Witness ==
  /\ pmInitialized /\ hcall.hook = "init" /\ hcall.n >= 2
  /\ Len(pluginDir.files) = 6
  /\ plugins = <<PRule>>

(***************************************************************************)
(*                 Properties of the vault and rule tiers                  *)
(***************************************************************************)

\* The calls resolve made on the tier, in order.
TierCalls(tier) == SelectSeq(rcalls.tiers, LAMBDA c : c.tier = tier)

HasWord(text, word) ==
  Includes(" " \o ToLowerCase(text) \o " ", " " \o word \o " ")

ChainWords == {"then", "and", "after that", "followed by"}

\* The command line the parser takes from the answer the gateway parsed.
AnswerLine ==
  LET text == Trim(rcalls.answer)
  IN  Cleaned(IF rin.learningMode /\ Includes(text, SENTINEL)
                THEN Trim(SentinelParts(text)[1]) ELSE text)

\* C16: when the input holds one of the words "then", "and", "after that",
\* "followed by", the built-in rules are not applied to it; if neither the
\* plugins nor the vault answer, the request reaches the AI gateway, and the
\* gateway accepts only a chained answer, one with a separator in its
\* command line.
C16_MultiStepSkipsRules ==
  (rpc = "returned" /\ \E w \in ChainWords : HasWord(rin.input, w)) =>
    LET t == rcalls.tiers
    IN  /\ TierCalls("rules") = <<>>
        /\ (\A i \in 1..Len(t) : t[i].tier \in {"plugin", "vault"} => IsNull(t[i].result))
             => (t[Len(t)].tier = "ai" /\ rcalls.gateway # <<>>)
        /\ (t[Len(t)].tier = "ai" /\ ~IsNull(rresult)) => HasSeparators(AnswerLine)

\* A request for two steps that a built-in rule would match was answered by
\* the gateway with a chain of two commands.
C16_Witness ==
  /\ rpc = "returned"
  /\ HasWord(rin.input, "then") /\ Includes(rin.input, "list files")
  /\ rcalls.tiers[Len(rcalls.tiers)].tier = "ai"
  /\ ~IsNull(rresult) /\ Len(rresult.commands) = 2

(***************************************************************************)
(* Calls of AIService.generateCommand.  The cache file outlives the        *)
(* invocations of the tool, and the user may set or unset GEMINI_API_KEY   *)
(* and edit config.json between them; every call reads both anew.  gnet is *)
(* the network answer, clock reading and cache fault the last call met,    *)
(* cachePre the cache files as that call found them.                       *)
(***************************************************************************)

MaxGenerates == 2

GatewayRequests ==
  [input : {"deploy app", "list files and then check git"}, learningMode : BOOLEAN,
   suggestMode : {FALSE}]

GatewayConfigs ==
  [envKey : {TRUE}, config : {"absent"}]
    \cup [envKey : {FALSE}, config : {"absent", "gemini", "other", "unreadable"}]

GatewayNetworks ==
  [reply : { [kind |-> "status", text |-> ""],
             [kind |-> "network", text |-> ""],
             [kind |-> "empty", text |-> ""],
             [kind |-> "text", text |-> "ls -la"],
             [kind |-> "text", text |-> "ls -la ; pwd"],
             [kind |-> "text", text |-> "which one?"] },
   now : {T0, T0 + 1 + cacheDuration},
   fault : {"none", "readJson"}]

NoNetwork == [reply |-> [kind |-> "status", text |-> ""], now |-> 0, fault |-> "none"]

GatewayInit ==
  /\ rin = [input |-> "", learningMode |-> FALSE, suggestMode |-> FALSE]
  /\ rresult = NULL
  /\ rcalls = NoCalls
  /\ rpc = "idle"
  /\ ros = Linux
  /\ crInitialized = FALSE
  /\ stInitialized = FALSE
  /\ vaultFile = [exists |-> FALSE, readable |-> TRUE, entries |-> <<>>]
  /\ aiEnv \in GatewayConfigs
  /\ cacheFile = NoFile
  /\ cacheTmp = NoFile
  /\ cachePre = [file |-> NoFile, tmp |-> NoFile]
  /\ cop = NoOp
  /\ gnet = NoNetwork

\* AIService.generateCommand(req.input, ros, req.learningMode)
Generate ==
  /\ rcalls.n < MaxGenerates
  /\ \E req \in GatewayRequests, net \in GatewayNetworks :
     \E ai \in {generateCommand(req.input, ros, req.learningMode,
                                cacheFile, cacheTmp, aiEnv, net)} :
       /\ rin' = req
       /\ rresult' = ai.result
       /\ rcalls' = [tiers |-> <<>>, gateway |-> ai.calls, answer |-> ai.text,
                     raised |-> ai.raised, n |-> rcalls.n + 1]
       /\ rpc' = "returned"
       /\ cacheFile' = ai.file
       /\ cacheTmp' = ai.tmp
       /\ cachePre' = [file |-> cacheFile, tmp |-> cacheTmp]
       /\ gnet' = net
  /\ UNCHANGED <<ros, aiEnv, crInitialized, stInitialized, vaultFile, cop,
                 parseVars, pluginVars, safetyVars, writerVars, hookVars,
                 cliVars, searchVars, raceVars>>

\* Between two invocations the user sets or unsets GEMINI_API_KEY or edits
\* config.json; getAvailableProvider reads them at every call.  No call is
\* in progress or just returned.
Reconfigure ==
  /\ rcalls.n < MaxGenerates
  /\ aiEnv' \in GatewayConfigs \ {aiEnv}
  /\ rpc' = "idle"
  /\ UNCHANGED <<rin, ros, rresult, rcalls, crInitialized, stInitialized, vaultFile,
                 cacheVars, gnet, parseVars, pluginVars, safetyVars, writerVars, hookVars,
                 cliVars, searchVars, raceVars>>

GatewayNext == Generate \/ Reconfigure

(***************************************************************************)
(*                     Properties of the AI gateway                        *)
(***************************************************************************)

\* No API key in the environment and none in the config file.
NoProvider == ~aiEnv.envKey /\ aiEnv.config = "absent"

\* The last gateway call found the cache file readable.
CacheReadable ==
  gnet.fault = "none" /\ (cachePre.file.exists => cachePre.file.complete)

\* The last gateway call found, for its request, a stored response that had
\* not expired.
LiveEntry ==
  LET key == getCacheKey(rin.input, ros, rin.learningMode)
      i   == KeyIndex(cachePre.file.entries, key)
  IN  /\ cachePre.file.exists
      /\ i # 0
      /\ gnet.now <= cachePre.file.entries[i].expiresAt

NetworkCalls == Len(SelectSeq(rcalls.gateway, LAMBDA c : c = "network"))

\* C17 as stated: with no provider configured, the AI tier ends with null.
C17_NoProviderGivesNull ==
  (rpc = "returned" /\ NoProvider) => IsNull(rresult)

\* C17: with no provider configured the AI tier makes no network call, and
\* it ends with null unless its cache holds an unexpired response for the
\* request; a response it can read from the cache it still answers with.
C17_NoProviderNoNetwork ==
  (rpc = "returned" /\ NoProvider) =>
    /\ rcalls.gateway = <<"cache.get">>
    /\ ~(CacheReadable /\ LiveEntry) => IsNull(rresult)

\* With no provider configured and nothing in the cache, the call ended with
\* null though the network would have answered.
C17_Witness ==
  /\ rpc = "returned" /\ NoProvider
  /\ ~cachePre.file.exists
  /\ gnet.reply = [kind |-> "text", text |-> "ls -la"]
  /\ IsNull(rresult)

StoredResponse ==
  cachePre.file.entries[KeyIndex(cachePre.file.entries,
                                 getCacheKey(rin.input, ros, rin.learningMode))].response

\* C27: a model response that the parser rejects does not stay in the cache
\* as an answer: a later call for the same (input, os, learningMode) within
\* the TTL, a provider being configured, makes a network call again instead
\* of returning null from the stored text.
C27_RejectedNotCached ==
  (/\ rpc = "returned"
   /\ CacheReadable /\ LiveEntry
   /\ IsNull(parseAIResponse(StoredResponse, WantsMultiple(rin.input), rin.learningMode))
   /\ (aiEnv.envKey \/ aiEnv.config = "gemini"))
    => NetworkCalls = 1

(***************************************************************************)
(* Calls of resolve under faults: plugin hooks that throw, a plugin        *)
(* directory and a vault that cannot be read, failing cache file steps, an *)
(* unreadable provider configuration, a failing network and answers the    *)
(* parser rejects.                                                         *)
(***************************************************************************)

FaultDirectories ==
  { [exists |-> TRUE, readable |-> FALSE, files |-> <<>>],
    Directory(<<PluginFile("faulty.js", PFaulty), PluginFile("quiet.js", PQuiet)>>),
    Directory(<<[file |-> "broken.js", loads |-> FALSE, plugin |-> PQuiet],
                PluginFile("faulty.js", PFaulty)>>) }

FaultVaults ==
  { [exists |-> TRUE, readable |-> FALSE, entries |-> <<>>],
    [exists |-> TRUE, readable |-> TRUE,
     entries |-> <<VaultEntry(<<"git status">>, "Command: git status", 50)>>] }

FaultConfigs ==
  { [envKey |-> TRUE, config |-> "unreadable"],
    [envKey |-> FALSE, config |-> "unreadable"],
    [envKey |-> FALSE, config |-> "gemini"] }

FaultRequests ==
  [input : {"deploy app", "list files and then check git"}, learningMode : BOOLEAN,
   suggestMode : BOOLEAN]

FaultNetworks ==
  [reply : { [kind |-> "status", text |-> ""],
             [kind |-> "network", text |-> ""],
             [kind |-> "text", text |-> "ls -la"],
             [kind |-> "text", text |-> "which one?"],
             [kind |-> "text", text |-> "ls_JSON_{\"concepts\":"] },
   now : {T0},
   fault : {"none", "pathExists", "readJson", "writeJson", "ensureDir", "move"}]

FaultInit ==
  /\ rin = [input |-> "", learningMode |-> FALSE, suggestMode |-> FALSE]
  /\ rresult = NULL
  /\ rcalls = NoCalls
  /\ rpc = "idle"
  /\ ros = Linux
  /\ crInitialized = FALSE
  /\ stInitialized = FALSE
  /\ vaultFile \in FaultVaults
  /\ aiEnv \in FaultConfigs
  /\ pluginDir \in FaultDirectories
  /\ plugins = <<>>
  /\ pmInitialized = FALSE
  /\ cacheFile \in {NoFile, TornFile}
  /\ cacheTmp = NoFile
  /\ cachePre = [file |-> NoFile, tmp |-> NoFile]
  /\ cop = NoOp

ResolveUnderFaults == ResolveWith(FaultRequests, FaultNetworks)

FaultNext == ResolveUnderFaults

(***************************************************************************)
(*                   Properties of resolve under faults                    *)
(***************************************************************************)

IsResolvedCommand(result) ==
  {"commands", "explanation", "tags", "confidence", "source"} \subseteq DOMAIN result

\* C19: resolve never raises: whatever combination of a throwing plugin
\* hook, a failing vault read, failing cache I/O, an unreadable provider
\* configuration, a failing network call and a rejecting parser it meets, it
\* completes with a ResolvedCommand or with null.
C19_ResolveNeverRaises ==
  rpc = "returned" =>
    /\ ~rcalls.raised
    /\ IsNull(rresult) \/ IsResolvedCommand(rresult)

\* A call met a throwing plugin hook, an unreadable vault and an unreadable
\* provider configuration, and completed with null.
C19_Witness ==
  /\ rpc = "returned"
  /\ \E i \in 1..Len(plugins) : plugins[i].rules.kind = "throw"
  /\ ~vaultFile.readable /\ ~rin.suggestMode
  /\ ~aiEnv.envKey /\ aiEnv.config = "unreadable"
  /\ rcalls.tiers[Len(rcalls.tiers)].tier = "ai"
  /\ IsNull(rresult) /\ ~rcalls.raised

(***************************************************************************)
(* The command line's execution pipeline: executeResolvedCommand and       *)
(* runCommand.  Each invocation is a process of its own: createContext     *)
(* builds a new plugin manager and validator.                              *)
(***************************************************************************)

\* Most steps in a resolution handed to the pipeline.
MaxSteps == 2

\* Invocations of the command line in one behaviour.
MaxInvocations == 2

\* result.replace(new RegExp("\\{k\\}", "g"), v) for a key k of word
\* characters and a value v without "$": pat is the text "{k}".
RECURSIVE ReplaceAll(_, _, _)
ReplaceAll(s, pat, v) ==
  LET i == IndexOf(s, pat, 1)
  IN  IF i = 0 THEN s
      ELSE SubSeq(s, 1, i - 1) \o v \o ReplaceAll(SubSeq(s, i + Len(pat), Len(s)), pat, v)

\* The loop over Object.entries(answers) applied to one command; keys is the
\* set of keys still to be replaced.
RECURSIVE SubstituteIn(_, _, _)
SubstituteIn(cmd, answers, keys) ==
  IF keys = {} THEN cmd
  ELSE LET k == CHOOSE x \in keys : TRUE
       IN  SubstituteIn(ReplaceAll(cmd, "{" \o k \o "}", answers[k]), answers, keys \ {k})

\* commands.map(cmd => ...) with the answers of the variable prompt.
Substitute(commands, answers) ==
  [i \in 1..Len(commands) |-> SubstituteIn(commands[i], answers, DOMAIN answers)]

\* The mutation of Refused: the block test never holds.
RefusedNever(safety) == FALSE

\* if (safety.blocked) { ...; return; }
Refused(safety) == safety.blocked

CliCommands == {"ls -la", "rm -rf /", "rm -rf {dir}", "echo hi"}

\* The resolutions handed to the pipeline: the variables are the placeholders
\* of the commands.
CliResolutions ==
  { [Resolved(c) EXCEPT !.variables = ExtractVariables(c)] :
      c \in SeqsUpTo(CliCommands, MaxSteps) }

\* What the user types at a variable prompt.
CliValues == {"/", "tmp"}

CliDirectories ==
  { MissingDirectory,
    Directory(<<PluginFile("faulty.js", PFaulty), PluginFile("allow.js", PAllow)>>),
    Directory(<<PluginFile("block.js", PBlock), PluginFile("allow.js", PAllow)>>) }

\* How a spawned command ends: exit code 0, another exit code, or the
\* "error" event.
Outcomes == {"exit0", "exit1", "error"}

NoSafety == [blocked |-> FALSE, riskLevel |-> "none"]

CliInit ==
  /\ pluginDir \in CliDirectories
  /\ plugins = <<>>
  /\ pmInitialized = FALSE
  /\ svInitialized = FALSE
  /\ vcmd = Resolved(<<>>) /\ vresult = NULL /\ vpc = "idle"
  /\ xpc = "idle"
  /\ xn = 0
  /\ xresolved = Resolved(<<>>)
  /\ xsafety = NoSafety
  /\ xcommands = <<>>
  /\ xstep = 0
  /\ xasked = <<>>
  /\ xran = <<>>

OtherThanCli ==
  <<vcmd, vresult, vpc, parseVars, cacheVars, resolveVars, writerVars, hookVars, gatewayVars,
    searchVars, raceVars>>

\* A new invocation reaches executeResolvedCommand(resolved, validator):
\* createContext, validate, the block test, the variable prompt and the
\* listing, up to the first confirmation prompt.
ExecuteResolvedCommand ==
  /\ xpc \in {"idle", "returned", "failed"}
  /\ xn < MaxInvocations
  /\ xn' = xn + 1
  /\ \E resolved \in CliResolutions :
     \E answers \in [resolved.variables -> CliValues] :
     \E pm \in {pmInit([dir |-> pluginDir, plugins |-> <<>>, initialized |-> FALSE])} :
     \E safety \in {validate(resolved, pm.plugins)} :
     \E commands \in {IF Refused(safety) THEN <<>> ELSE Substitute(resolved.commands, answers)} :
       /\ pluginDir' = pm.dir
       /\ plugins' = pm.plugins
       /\ pmInitialized' = pm.initialized
       /\ svInitialized' = TRUE
       /\ xresolved' = resolved
       /\ xsafety' = safety
       /\ xcommands' = commands
       /\ xstep' = IF commands = <<>> THEN 0 ELSE 1
       /\ xpc' = IF commands = <<>> THEN "returned" ELSE "confirm"
  /\ xasked' = <<>>
  /\ xran' = <<>>
  /\ UNCHANGED OtherThanCli

\* i++ and the loop test.
NextStep ==
  /\ xstep' = IF xstep < Len(xcommands) THEN xstep + 1 ELSE 0
  /\ xpc' = IF xstep < Len(xcommands) THEN "confirm" ELSE "returned"

\* The user answers no (the default) at the prompt of step xstep.
Skip ==
  /\ xpc = "confirm"
  /\ xasked' = Append(xasked, [step |-> xstep, execute |-> FALSE])
  /\ NextStep
  /\ UNCHANGED <<xn, xresolved, xsafety, xcommands, xran, pluginVars, svInitialized,
                 OtherThanCli>>

\* The user answers yes at the prompt of step xstep: runCommand spawns the
\* command; any end but exit code 0 rejects and ends the invocation.
Confirm ==
  /\ xpc = "confirm"
  /\ xasked' = Append(xasked, [step |-> xstep, execute |-> TRUE])
  /\ \E outcome \in Outcomes :
       /\ xran' = Append(xran, [step |-> xstep, cmd |-> xcommands[xstep], outcome |-> outcome])
       /\ IF outcome = "exit0" THEN NextStep
          ELSE xstep' = 0 /\ xpc' = "failed"
  /\ UNCHANGED <<xn, xresolved, xsafety, xcommands, pluginVars, svInitialized, OtherThanCli>>

CliNext == ExecuteResolvedCommand \/ Skip \/ Confirm

(***************************************************************************)
(*                  Properties of the execution pipeline                   *)
(***************************************************************************)

\* The steps the user was asked about and answered yes to.
ConfirmedSteps == {xasked[j].step : j \in {i \in 1..Len(xasked) : xasked[i].execute}}

\* C20: the command line never runs a command on its own: every command it
\* has run in an invocation is a step of the resolution that validate
\* answered with blocked = false and that the user confirmed at that step's
\* prompt; when validate answers blocked = true, no command of the
\* resolution is run and no confirmation is asked.
C20_NoAutoExecution ==
  /\ \A k \in 1..Len(xran) :
       /\ xsafety = validate(xresolved, plugins) /\ ~xsafety.blocked
       /\ xran[k].step \in ConfirmedSteps
       /\ xran[k].step \in 1..Len(xresolved.commands)
       /\ xran[k].cmd = xcommands[xran[k].step]
  /\ (xpc # "idle" /\ validate(xresolved, plugins).blocked) =>
       (xran = <<>> /\ xasked = <<>> /\ xpc = "returned")

\* A two-step resolution was not blocked; the user skipped the first step
\* and confirmed the second, which was then run with the typed value in it.
C20_Witness ==
  /\ xpc = "returned"
  /\ ~xsafety.blocked
  /\ xresolved.commands = <<"echo hi", "rm -rf {dir}">>
  /\ xasked = <<[step |-> 1, execute |-> FALSE], [step |-> 2, execute |-> TRUE]>>
  /\ xran = <<[step |-> 2, cmd |-> "rm -rf tmp", outcome |-> "exit0"]>>

\* A blocked resolution ended its invocation with nothing asked or run.
C20_BlockedWitness ==
  /\ xpc = "returned" /\ xn > 0
  /\ xsafety.blocked /\ Len(xresolved.commands) > 0
  /\ xasked = <<>> /\ xran = <<>>

\* C28: every command text the command line executes is a text that
\* validate classified: the text run for a step equals that step's command
\* in the sequence that was validated, also when placeholders were replaced
\* by values the user typed.
C28_ExecutedIsValidated ==
  \A k \in 1..Len(xran) :
    /\ xran[k].step \in 1..Len(xresolved.commands)
    /\ xran[k].cmd = xresolved.commands[xran[k].step]

\* C28, the case of its example: no command is run that validate would
\* block when it is given the text that is run.
C28_NoBlockedTextRuns ==
  \A k \in 1..Len(xran) : ~validate(Resolved(<<xran[k].cmd>>), plugins).blocked

(***************************************************************************)
(*                Calls of StorageManager.searchCommands                   *)
(***************************************************************************)

\* Most entries in a vault that is searched.
MaxVaultEntries == 2

\* A vault entry with its tags, usage count and days since its last use.
UsedEntry(commands, description, tags, usageCount, daysSinceUsed, confidence) ==
  [commands |-> commands, description |-> description, tags |-> tags,
   usageCount |-> usageCount, daysSinceUsed |-> daysSinceUsed, confidence |-> confidence,
   variables |-> {}]

SearchEntries ==
  { UsedEntry(<<"ls">>, "list files", <<"fs">>, 1, 0, 90),
    UsedEntry(<<"pwd">>, "print working directory", <<>>, 0, 0, 80),
    UsedEntry(<<"git status">>, "show git state", <<"git", "list">>, 12, 10, 70),
    UsedEntry(<<"df -h">>, "disk usage", <<>>, 0, 40, 0) }

SearchVaults ==
  { [exists |-> TRUE, readable |-> TRUE, entries |-> e] :
      e \in SeqsUpTo(SearchEntries, MaxVaultEntries) }

SearchQueries == {"list", "git", " LS", "zzz"}

SearchInit ==
  /\ vaultFile \in SearchVaults
  /\ stInitialized = FALSE
  /\ squery \in SearchQueries
  /\ sfound = <<>>
  /\ spc = "called"
  /\ rin = [input |-> "", learningMode |-> FALSE, suggestMode |-> FALSE]
  /\ ros = Linux /\ rresult = NULL /\ rcalls = NoCalls /\ rpc = "idle"
  /\ crInitialized = FALSE
  /\ aiEnv = [envKey |-> FALSE, config |-> "absent"]

\* searchCommands(squery) with the default limit returns.
Search ==
  /\ spc = "called"
  /\ \E st \in {stInit([file |-> vaultFile, initialized |-> stInitialized])} :
       /\ vaultFile' = st.file
       /\ stInitialized' = st.initialized
       /\ sfound' = searchCommands(st.file.entries, squery, 10)
  /\ spc' = "returned"
  /\ UNCHANGED <<squery, rin, ros, rresult, rcalls, rpc, crInitialized, aiEnv, parseVars,
                 pluginVars, safetyVars, cacheVars, writerVars, hookVars, gatewayVars,
                 cliVars, raceVars>>

SearchNext == Search

(***************************************************************************)
(*                     Properties of the vault search                      *)
(***************************************************************************)

\* The entry holds the query in its command text, its description or a tag.
MatchesQuery(entry, q) ==
  \/ Includes(ToLowerCase(Join(entry.commands, " ")), q)
  \/ Includes(ToLowerCase(entry.description), q)
  \/ \E i \in 1..Len(entry.tags) : Includes(ToLowerCase(entry.tags[i]), q)

\* C26: vault search returns only entries that hold the query in their
\* command text, their description or a tag, ordered by relevance
\* descending; an entry that holds the query nowhere is not in the result.
C26_SearchReturnsMatches ==
  spc = "returned" =>
    LET q == Trim(ToLowerCase(squery)) IN
    /\ \A i \in 1..Len(sfound) : MatchesQuery(sfound[i], q)
    /\ \A i \in 1..(Len(sfound) - 1) :
         calculateRelevanceScore(sfound[i], q) >= calculateRelevanceScore(sfound[i + 1], q)

(***************************************************************************)
(*                 Callers sharing one PluginManager                       *)
(*                                                                         *)
(* Each caller (a resolve or a validate) awaits init() and then dispatches *)
(* a hook.  init sets this.initialized and awaits loadPlugins, which       *)
(* suspends at fs.pathExists and at fs.readdir (or fs.ensureDir); the loop *)
(* over the files uses the synchronous require and runs in one piece.  A   *)
(* caller that finds the flag set gets control back at once.               *)
(***************************************************************************)

NumCallers == 2

Callers == 1..NumCallers

RaceDirectories ==
  { MissingDirectory,
    Directory(<<PluginFile("rule.js", PRule), PluginFile("block.js", PBlock)>>),
    Directory(<<PluginFile("faulty.js", PFaulty), PluginFile("allow.js", PAllow)>>) }

\* What a caller that has not dispatched its hook has seen.
NotSeen == [hook |-> "none", stage |-> "idle", list |-> <<>>]

RaceInit ==
  /\ pluginDir \in RaceDirectories
  /\ plugins = <<>>
  /\ pmInitialized = FALSE
  /\ ipc = [c \in Callers |-> "start"]
  /\ iload = "idle"
  /\ iseen = [c \in Callers |-> NotSeen]

OtherThanRace ==
  <<parseVars, safetyVars, cacheVars, resolveVars, writerVars, hookVars, gatewayVars,
    cliVars, searchVars>>

\* await init(): the first caller sets the flag, starts loadPlugins and
\* waits for it; a caller that finds the flag set returns at once.
CallInit(c) ==
  /\ ipc[c] = "start"
  /\ IF pmInitialized
       THEN /\ ipc' = [ipc EXCEPT ![c] = "ready"]
            /\ UNCHANGED <<pmInitialized, iload>>
       ELSE /\ pmInitialized' = TRUE
            /\ iload' = "pathExists"
            /\ ipc' = [ipc EXCEPT ![c] = "loading"]
  /\ UNCHANGED <<pluginDir, plugins, iseen, OtherThanRace>>

\* loadPlugins: fs.pathExists resolves.
LoadPathExists ==
  /\ iload = "pathExists"
  /\ iload' = IF pluginDir.exists THEN "readdir" ELSE "ensureDir"
  /\ UNCHANGED <<pluginDir, plugins, pmInitialized, ipc, iseen, OtherThanRace>>

\* loadPlugins: fs.readdir (or fs.ensureDir) resolves, the loop over the
\* files fills this.plugins, and the caller awaiting init gets control back.
LoadFinish ==
  /\ iload \in {"readdir", "ensureDir"}
  /\ plugins' = loadPlugins(pluginDir, plugins)
  /\ pluginDir' = IF pluginDir.exists THEN pluginDir
                  ELSE [exists |-> TRUE, readable |-> TRUE, files |-> <<>>]
  /\ iload' = "done"
  /\ ipc' = [c \in Callers |-> IF ipc[c] = "loading" THEN "ready" ELSE ipc[c]]
  /\ UNCHANGED <<pmInitialized, iseen, OtherThanRace>>

\* The caller dispatches getRules or getSafetyChecks over this.plugins as it
\* is now.
Dispatch(c) ==
  /\ ipc[c] = "ready"
  /\ \E hook \in {"rules", "safety"} :
       iseen' = [iseen EXCEPT ![c] = [hook |-> hook, stage |-> iload, list |-> plugins]]
  /\ ipc' = [ipc EXCEPT ![c] = "done"]
  /\ UNCHANGED <<pluginVars, iload, OtherThanRace>>

RaceNext ==
  \/ \E c \in Callers : CallInit(c)
  \/ LoadPathExists
  \/ LoadFinish
  \/ \E c \in Callers : Dispatch(c)

(***************************************************************************)
(*                  Properties of the shared plugin manager                *)
(***************************************************************************)

\* C30: plugin hooks are dispatched only after plugin loading has finished:
\* when two callers start on the same PluginManager before the first init
\* has completed, each dispatches its hook over the complete list of the
\* plugins the directory provides, never while the list is being filled.
C30_HooksAfterLoading ==
  \A c \in Callers :
    ipc[c] = "done" =>
      /\ iseen[c].stage = "done"
      /\ iseen[c].list = loadPlugins(pluginDir, <<>>)

(***************************************************************************)
(*                           Specifications                                *)
(*                                                                         *)
(* Each specification runs one component; the variables of the others      *)
(* stay at their values before any call.                                   *)
(***************************************************************************)

ParseIdle ==
  /\ raw = "" /\ wantsMultipleIn = FALSE /\ learningModeIn = FALSE
  /\ parsed = NULL /\ ppc = "idle"

PluginIdle == pluginDir = MissingDirectory /\ plugins = <<>> /\ pmInitialized = FALSE

HookIdle == hcall = NoHookCall

GatewayIdle == gnet = NoNetwork

SafetyIdle ==
  svInitialized = FALSE /\ vcmd = Resolved(<<>>) /\ vresult = NULL /\ vpc = "idle"

CacheIdle ==
  /\ cacheFile = NoFile /\ cacheTmp = NoFile
  /\ cachePre = [file |-> NoFile, tmp |-> NoFile] /\ cop = NoOp

ResolveIdle ==
  /\ rin = [input |-> "", learningMode |-> FALSE, suggestMode |-> FALSE]
  /\ ros = Linux /\ rresult = NULL /\ rcalls = NoCalls /\ rpc = "idle"
  /\ crInitialized = FALSE /\ stInitialized = FALSE
  /\ vaultFile = [exists |-> FALSE, readable |-> TRUE, entries |-> <<>>]
  /\ aiEnv = [envKey |-> FALSE, config |-> "absent"]

WriterIdle ==
  /\ wpc = [w \in Writers |-> "start"] /\ wcache = [w \in Writers |-> <<>>]
  /\ wfd = [w \in Writers |-> "none"]

CliIdle ==
  /\ xpc = "idle" /\ xn = 0 /\ xresolved = Resolved(<<>>) /\ xsafety = NoSafety
  /\ xcommands = <<>> /\ xstep = 0 /\ xasked = <<>> /\ xran = <<>>

SearchIdle == squery = "" /\ sfound = <<>> /\ spc = "idle"

RaceIdle ==
  /\ ipc = [c \in Callers |-> "start"] /\ iload = "idle"
  /\ iseen = [c \in Callers |-> NotSeen]

\* parseAIResponse applied to raw model texts.
InitParse ==
  /\ ParseInit /\ PluginIdle /\ SafetyIdle /\ CacheIdle /\ ResolveIdle /\ WriterIdle
  /\ HookIdle /\ GatewayIdle /\ CliIdle /\ SearchIdle /\ RaceIdle

SpecParse == InitParse /\ [][ParseNext]_vars

\* validate applied to resolved commands, with the plugins of a directory.
InitSafety ==
  /\ SafetyInit /\ ParseIdle /\ CacheIdle /\ ResolveIdle /\ WriterIdle
  /\ HookIdle /\ GatewayIdle /\ CliIdle /\ SearchIdle /\ RaceIdle

SpecSafety == InitSafety /\ [][SafetyNext]_vars

\* get, set and clear applied to a cache file.
InitCache ==
  /\ CacheInit /\ ParseIdle /\ PluginIdle /\ SafetyIdle /\ ResolveIdle /\ WriterIdle
  /\ HookIdle /\ GatewayIdle /\ CliIdle /\ SearchIdle /\ RaceIdle

SpecCache == InitCache /\ [][CacheNext]_vars

\* resolve applied to requests, with its plugins, vault, cache and network.
InitResolve ==
  /\ ResolveInit /\ ParseIdle /\ SafetyIdle /\ WriterIdle
  /\ HookIdle /\ GatewayIdle /\ CliIdle /\ SearchIdle /\ RaceIdle

SpecResolve == InitResolve /\ [][ResolveNext]_vars

\* Two invocations of the tool writing the cache at the same time.
InitWriters ==
  /\ WriterInit /\ ParseIdle /\ PluginIdle /\ SafetyIdle /\ ResolveIdle
  /\ HookIdle /\ GatewayIdle /\ CliIdle /\ SearchIdle /\ RaceIdle

SpecWriters == InitWriters /\ [][WriterNext]_vars

\* init, getRules, getSafetyChecks and onCommandExecuted on a plugin manager.
InitPlugins ==
  /\ PluginInit /\ ParseIdle /\ SafetyIdle /\ CacheIdle /\ ResolveIdle /\ WriterIdle
  /\ GatewayIdle /\ CliIdle /\ SearchIdle /\ RaceIdle

SpecPlugins == InitPlugins /\ [][PluginNext]_vars

\* generateCommand called directly, the provider configuration changing
\* between the calls.
InitGateway ==
  /\ GatewayInit /\ ParseIdle /\ PluginIdle /\ SafetyIdle /\ WriterIdle
  /\ HookIdle /\ CliIdle /\ SearchIdle /\ RaceIdle

SpecGateway == InitGateway /\ [][GatewayNext]_vars

\* resolve applied to requests while its collaborators fail.
InitFaults ==
  /\ FaultInit /\ ParseIdle /\ SafetyIdle /\ WriterIdle
  /\ HookIdle /\ GatewayIdle /\ CliIdle /\ SearchIdle /\ RaceIdle

SpecFaults == InitFaults /\ [][FaultNext]_vars

\* Invocations of the command line executing resolved commands.
InitCli ==
  /\ CliInit /\ ParseIdle /\ CacheIdle /\ ResolveIdle /\ WriterIdle
  /\ HookIdle /\ GatewayIdle /\ SearchIdle /\ RaceIdle

SpecCli == InitCli /\ [][CliNext]_vars

\* searchCommands applied to queries and vaults.
InitSearch ==
  /\ SearchInit /\ ParseIdle /\ PluginIdle /\ SafetyIdle /\ CacheIdle /\ WriterIdle
  /\ HookIdle /\ GatewayIdle /\ CliIdle /\ RaceIdle

SpecSearch == InitSearch /\ [][SearchNext]_vars

\* Two callers starting on one plugin manager.
InitRace ==
  /\ RaceInit /\ ParseIdle /\ SafetyIdle /\ CacheIdle /\ ResolveIdle /\ WriterIdle
  /\ HookIdle /\ GatewayIdle /\ CliIdle /\ SearchIdle

SpecRace == InitRace /\ [][RaceNext]_vars

====
